---- MODULE Spec2Model ----
(***************************************************************************)
(* Iterative cross-epoch alignment engine of download_data (v1 and v5):    *)
(* the convergence controller launch_xym2pm_Gaia, the per-frame worker     *)
(* xym2pm_Gaia, the aggregator weighted_avg_err and the calibrator         *)
(* absolute_pm.                                                            *)
(*                                                                         *)
(* Numbers.  A float is modelled as an exact rational <<n, d>> in lowest   *)
(* terms with d > 0; NaN (a pandas null) is <<0, 0>> and +/-inf is         *)
(* <<+/-1, 0>>.  An error column is carried as its square (X_error ** 2,   *)
(* fields named *_error2), which is the only form in which the code        *)
(* consumes it, except in the drift threshold, where np.sqrt is taken by   *)
(* RSqrt.  The controller reads the columns of use_mean = 'wmean'.         *)
(***************************************************************************)
EXTENDS Integers, Sequences, FiniteSets, TLC

(***************************************************************************)
(* Bounds of the model.                                                    *)
(***************************************************************************)
NStars == 2
MaxFrames == 2

(***************************************************************************)
(* Rational arithmetic with the IEEE special values the code meets.        *)
(***************************************************************************)
NaN == <<0, 0>>
PInf == <<1, 0>>
Zero == <<0, 1>>
One == <<1, 1>>

AbsInt(i) == IF i < 0 THEN -i ELSE i
SgnInt(i) == IF i < 0 THEN -1 ELSE IF i = 0 THEN 0 ELSE 1

RECURSIVE GCD(_, _)
GCD(a, b) == IF b = 0 THEN a ELSE GCD(b, a % b)

\* The canonical form of n/d (d may be negative or zero).
Norm(n, d) ==
    IF d = 0 THEN <<SgnInt(n), 0>>
    ELSE LET g == GCD(AbsInt(n), AbsInt(d))
             s == IF d < 0 THEN -1 ELSE 1
         IN  <<(s * n) \div g, (s * d) \div g>>

R(n, d) == Norm(n, d)
isnull(a) == a = NaN
notnull(a) == a # NaN
isfinite(a) == a[2] # 0

\* Sums, products and comparisons cancel common factors first, to keep the
\* intermediate integers small.
RAdd(a, b) ==
    IF a[2] = 0 /\ b[2] = 0
    THEN (IF a = b THEN a ELSE NaN)
    ELSE IF a[2] = 0 THEN a
    ELSE IF b[2] = 0 THEN b
    ELSE LET g == GCD(a[2], b[2])
         IN  Norm(a[1] * (b[2] \div g) + b[1] * (a[2] \div g), (a[2] \div g) * b[2])
RNeg(a) == <<-a[1], a[2]>>
RSub(a, b) == RAdd(a, RNeg(b))
RMul(a, b) ==
    IF a[2] = 0 \/ b[2] = 0 THEN Norm(a[1] * b[1], 0)
    ELSE LET g == GCD(AbsInt(a[1]), b[2])
             h == GCD(AbsInt(b[1]), a[2])
         IN  Norm((a[1] \div g) * (b[1] \div h), (a[2] \div h) * (b[2] \div g))
RInv(a) == IF a[1] < 0 THEN <<-a[2], -a[1]>> ELSE <<a[2], a[1]>>
RDiv(a, b) == RMul(a, RInv(b))
RSq(a) == RMul(a, a)
RAbs(a) == <<AbsInt(a[1]), a[2]>>
\* a <= b as IEEE compares: FALSE when either side is NaN.
RLeq(a, b) ==
    /\ a # NaN
    /\ b # NaN
    /\ IF a[2] = 0 /\ b[2] = 0 THEN a[1] <= b[1]
       ELSE IF a[2] = 0 THEN a[1] < 0
       ELSE IF b[2] = 0 THEN b[1] > 0
       ELSE LET g == GCD(a[2], b[2])
            IN  a[1] * (b[2] \div g) <= b[1] * (a[2] \div g)

\* floor(sqrt(k)) by bisection, lo*lo <= k < hi*hi.
RECURSIVE SqrtIter(_, _, _)
SqrtIter(k, lo, hi) ==
    IF hi - lo <= 1 THEN lo
    ELSE LET mid == (lo + hi) \div 2
         IN  IF mid * mid <= k THEN SqrtIter(k, mid, hi) ELSE SqrtIter(k, lo, mid)
ISqrt(k) == SqrtIter(k, 0, 46341)

\* np.sqrt to three decimals (exact on the squares of such numbers).
RSqrt(a) ==
    IF a[2] = 0 THEN (IF a = PInf THEN PInf ELSE NaN)
    ELSE IF a[1] < 0 THEN NaN
    ELSE Norm(ISqrt((a[1] * 1000000) \div a[2]), 1000)

(***************************************************************************)
(* pandas reductions over a sequence of values, nulls skipped.             *)
(***************************************************************************)
RECURSIVE SumSkipNa(_)
SumSkipNa(xs) ==
    IF xs = <<>> THEN Zero
    ELSE IF isnull(Head(xs)) THEN SumSkipNa(Tail(xs))
    ELSE RAdd(Head(xs), SumSkipNa(Tail(xs)))

RECURSIVE CountNotNull(_)
CountNotNull(xs) ==
    IF xs = <<>> THEN 0
    ELSE (IF isnull(Head(xs)) THEN 0 ELSE 1) + CountNotNull(Tail(xs))

\* Series.mean(): the mean of the non-null values, NaN when there is none.
SeriesMean(xs) == RDiv(SumSkipNa(xs), <<CountNotNull(xs), 1>>)

\* Series.std() ** 2 with ddof degrees of freedom removed.
SeriesVar(xs, ddof) ==
    LET n == CountNotNull(xs)
        m == SeriesMean(xs)
        dev == [i \in 1..Len(xs) |-> IF isnull(xs[i]) THEN NaN ELSE RSq(RSub(xs[i], m))]
    IN  IF n - ddof <= 0 THEN NaN ELSE RDiv(SumSkipNa(dev), <<n - ddof, 1>>)

(***************************************************************************)
(* Weighted Aggregator: get_errors and weighted_avg_err, one variable      *)
(* column at a time.  x_i is the column's values over the rows of the      *)
(* table, err2_i its "<col>_error" column squared, or NoErrorColumn when   *)
(* the table has none.                                                     *)
(***************************************************************************)
NoErrorColumn == <<>>

\* ex_i ** 2: the column's errors squared; without an error column, np.std
\* of the whole column (ddof = 0) stands for every row's error.
get_errors(x_i, err2_i) ==
    IF err2_i # NoErrorColumn
    THEN err2_i
    ELSE [i \in 1..Len(x_i) |-> SeriesVar(x_i, 0)]

\* Faulty variant: the variance of the unweighted mean, mean(ex_i ** 2) / n.
weighted_variance_unweighted(x_i, err2_i) ==
    RDiv(SeriesMean(get_errors(x_i, err2_i)), <<Len(x_i), 1>>)

weighted_variance(x_i, err2_i) ==
    LET ex2 == get_errors(x_i, err2_i)
    IN  RInv(SumSkipNa([i \in 1..Len(x_i) |-> RInv(ex2[i])]))

weighted_avg(x_i, err2_i) ==
    LET ex2 == get_errors(x_i, err2_i)
    IN  RMul(SumSkipNa([i \in 1..Len(x_i) |-> RDiv(x_i[i], ex2[i])]),
             weighted_variance(x_i, err2_i))

\* The five statistics of one column; the *_error2 fields are the squares
\* of the "_wmean_error" and "_mean_error" columns, std2 of "_std".
weighted_avg_err(x_i, err2_i) ==
    [wmean        |-> weighted_avg(x_i, err2_i),
     wmean_error2 |-> weighted_variance(x_i, err2_i),
     mean         |-> SeriesMean(x_i),
     mean_error2  |-> RDiv(SeriesVar(x_i, 1), <<Len(x_i), 1>>),
     std2         |-> SeriesVar(x_i, 1)]

\* The "_wmean_error" column itself.
weighted_avg_error(x_i, err2_i) == RSqrt(weighted_variance(x_i, err2_i))

(***************************************************************************)
(* The catalog (Gaia_HST_table) and the frames.                            *)
(***************************************************************************)
Stars == 1..NStars
Frames == 1..MaxFrames

\* Reference-epoch columns of the catalog: pmra, pmdec and their errors.
Gaia_table(s) ==
    [pmra |-> R(s, 1), pmra_error2 |-> R(s * s, 1),
     pmdec |-> R(0 - s, 1), pmdec_error2 |-> R(1, 1)]

\* find_stars_to_align: the stars whose position lies within the footprint
\* of image f (the column HST_image).  The last frame misses the last star.
find_stars_to_align(f) ==
    IF f > 1 /\ f = MaxFrames THEN Stars \ {NStars} ELSE Stars

\* The header keyword FILTER of image f.
FilterNames == {"F606W", "F814W"}
header_filter(f) == IF f % 2 = 1 THEN "F606W" ELSE "F814W"

\* The alternatives of the external transformer's LNK output for image f.
LnkAlternatives(f) == IF f = 1 THEN {1, 2} ELSE {1}

\* One row of the match table xym2pm_Gaia builds from the LNK output of image
\* f (alternative m) for star s: the relative proper motions, their errors
\* (squared) and the Gaia positional uncertainty over the time baseline.
lnk_row(f, m, s) ==
    [relative_hst_gaia_pmra |-> R(s * f + m, 1),
     relative_hst_gaia_pmra_error2 |-> R(1, ((s + f) % 2) + 1),
     relative_hst_gaia_pmdec |-> R(f - (s * m), 2),
     relative_hst_gaia_pmdec_error2 |-> R(1, ((s + f) % 2) + 1),
     gaia_dra_uncertaintity |-> R(1, 2), gaia_ddec_uncertaintity |-> R(1, 2)]

\* What a worker returns: pd.DataFrame() (no rows), or the match table, one
\* row per star of the field, with the image's filter as a column.
EmptyDataFrame == [kind |-> "empty", filter |-> "", rows |-> <<>>]
MatchTable(f, m) ==
    [kind |-> "match", filter |-> header_filter(f),
     rows |-> [s \in find_stars_to_align(f) |-> lnk_row(f, m, s)]]
\* The worker raised: no value is returned, the exception travels to the
\* caller of pool.map (or of the serial loop).
Raised == [kind |-> "raise", filter |-> "", rows |-> <<>>]
Pending == [kind |-> "pending", filter |-> "", rows |-> <<>>]

(***************************************************************************)
(* pd.concat(lnks, sort=True) and lnks.groupby(lnks.index).                *)
(***************************************************************************)
\* pd.concat raises ValueError ("No objects to concatenate") only for an
\* empty list; a list of empty DataFrames concatenates to an empty DataFrame.
pd_concat_raises(lnks) == Len(lnks) = 0

RECURSIVE SortedSeq(_)
SortedSeq(S) ==
    IF S = {} THEN <<>>
    ELSE LET m == CHOOSE x \in S : \A y \in S : x <= y
         IN  <<m>> \o SortedSeq(S \ {m})

\* Faulty variant: a failed frame contributes a row of zeros for every star
\* (the LNK convention, where 0 stands for "no value", without na_values).
frame_rows_zero_filled(df) ==
    LET zero_row == [relative_hst_gaia_pmra |-> Zero, relative_hst_gaia_pmra_error2 |-> One,
                     relative_hst_gaia_pmdec |-> Zero, relative_hst_gaia_pmdec_error2 |-> One,
                     gaia_dra_uncertaintity |-> Zero, gaia_ddec_uncertaintity |-> Zero]
        rows == IF df.kind = "empty" THEN [s \in Stars |-> zero_row] ELSE df.rows
        idx == SortedSeq(DOMAIN rows)
    IN  [i \in 1..Len(idx) |-> [star |-> idx[i], row |-> rows[idx[i]]]]

\* The rows of one DataFrame, in index order, each with its index label.
frame_rows(df) ==
    LET idx == SortedSeq(DOMAIN df.rows)
    IN  [i \in 1..Len(idx) |-> [star |-> idx[i], row |-> df.rows[idx[i]]]]

RECURSIVE pd_concat(_)
pd_concat(lnks) ==
    IF lnks = <<>> THEN <<>>
    ELSE frame_rows(Head(lnks)) \o pd_concat(Tail(lnks))

\* The columns of the concatenation: the filter columns of its DataFrames
\* (the proper-motion columns are those of every match table).
concat_filters(lnks) ==
    {lnks[i].filter : i \in {j \in 1..Len(lnks) : lnks[j].kind = "match"}}

\* The index of the concatenation and the group of rows of one label.
concat_index(cat) == {cat[i].star : i \in 1..Len(cat)}
group(cat, s) ==
    LET g == SelectSeq(cat, LAMBDA r : r.star = s)
    IN  [i \in 1..Len(g) |-> g[i].row]

Column(rows, c) == [i \in 1..Len(rows) |-> rows[i][c]]

(***************************************************************************)
(* AGGREGATE: lnks_averaged, the per-star statistics, with the Gaia        *)
(* positional uncertainty added in quadrature (v5: to the wmean and mean   *)
(* errors; v1: to the mean error only) and the gaia* columns dropped.      *)
(***************************************************************************)
NullAggregate ==
    [relative_hst_gaia_pmra_wmean |-> NaN, relative_hst_gaia_pmra_wmean_error2 |-> NaN,
     relative_hst_gaia_pmdec_wmean |-> NaN, relative_hst_gaia_pmdec_wmean_error2 |-> NaN,
     relative_hst_gaia_pmra_mean |-> NaN, relative_hst_gaia_pmra_mean_error2 |-> NaN,
     relative_hst_gaia_pmdec_mean |-> NaN, relative_hst_gaia_pmdec_mean_error2 |-> NaN]

lnks_averaged_row(rows, ver) ==
    LET ra == weighted_avg_err(Column(rows, "relative_hst_gaia_pmra"),
                               Column(rows, "relative_hst_gaia_pmra_error2"))
        dec == weighted_avg_err(Column(rows, "relative_hst_gaia_pmdec"),
                                Column(rows, "relative_hst_gaia_pmdec_error2"))
        dra == weighted_avg_err(Column(rows, "gaia_dra_uncertaintity"), NoErrorColumn)
        ddec == weighted_avg_err(Column(rows, "gaia_ddec_uncertaintity"), NoErrorColumn)
    IN  [relative_hst_gaia_pmra_wmean |-> ra.wmean,
         relative_hst_gaia_pmra_wmean_error2 |->
             IF ver = "v5" THEN RAdd(ra.wmean_error2, RSq(dra.mean)) ELSE ra.wmean_error2,
         relative_hst_gaia_pmdec_wmean |-> dec.wmean,
         relative_hst_gaia_pmdec_wmean_error2 |->
             IF ver = "v5" THEN RAdd(dec.wmean_error2, RSq(ddec.mean)) ELSE dec.wmean_error2,
         relative_hst_gaia_pmra_mean |-> ra.mean,
         relative_hst_gaia_pmra_mean_error2 |-> RAdd(ra.mean_error2, RSq(dra.mean)),
         relative_hst_gaia_pmdec_mean |-> dec.mean,
         relative_hst_gaia_pmdec_mean_error2 |-> RAdd(dec.mean_error2, RSq(ddec.mean))]

\* Gaia_HST_table.join(lnks_averaged): a star outside the index gets nulls.
lnks_averaged(cat, ver) ==
    [s \in Stars |->
        IF s \in concat_index(cat) THEN lnks_averaged_row(group(cat, s), ver)
        ELSE NullAggregate]

(***************************************************************************)
(* CALIBRATE: absolute_pm.  The ensemble offset is the weighted average of *)
(* (reference PM - relative PM) over the rows of the table.                *)
(***************************************************************************)
NullAbsolute ==
    [hst_gaia_pmra_wmean |-> NaN, hst_gaia_pmra_wmean_error2 |-> NaN,
     hst_gaia_pmdec_wmean |-> NaN, hst_gaia_pmdec_wmean_error2 |-> NaN,
     hst_gaia_pmra_mean |-> NaN, hst_gaia_pmra_mean_error2 |-> NaN,
     hst_gaia_pmdec_mean |-> NaN, hst_gaia_pmdec_mean_error2 |-> NaN]

\* Faulty variant: the declination differences are taken from pmra.
absolute_pm_pmra_twice(cat_, rel) ==
    LET pm_differences_ra ==
            [s \in Stars |-> RSub(cat_[s].pmra, rel[s].relative_hst_gaia_pmra_wmean)]
        pm_differences_dec ==
            [s \in Stars |-> RSub(cat_[s].pmra, rel[s].relative_hst_gaia_pmdec_wmean)]
        pm_differences_ra_error2 ==
            [s \in Stars |-> RAdd(cat_[s].pmra_error2,
                                  rel[s].relative_hst_gaia_pmra_wmean_error2)]
        pm_differences_dec_error2 ==
            [s \in Stars |-> RAdd(cat_[s].pmdec_error2,
                                  rel[s].relative_hst_gaia_pmdec_wmean_error2)]
        wra == weighted_avg_err(pm_differences_ra, pm_differences_ra_error2)
        wdec == weighted_avg_err(pm_differences_dec, pm_differences_dec_error2)
        mra == weighted_avg_err(
                   [s \in Stars |-> RSub(cat_[s].pmra, rel[s].relative_hst_gaia_pmra_mean)],
                   [s \in Stars |-> RAdd(cat_[s].pmra_error2,
                                         rel[s].relative_hst_gaia_pmra_mean_error2)])
        mdec == weighted_avg_err(
                   [s \in Stars |-> RSub(cat_[s].pmra, rel[s].relative_hst_gaia_pmdec_mean)],
                   [s \in Stars |-> RAdd(cat_[s].pmdec_error2,
                                         rel[s].relative_hst_gaia_pmdec_mean_error2)])
    IN  [s \in Stars |->
            [hst_gaia_pmra_wmean |->
                 RAdd(rel[s].relative_hst_gaia_pmra_wmean, wra.wmean),
             hst_gaia_pmra_wmean_error2 |->
                 RAdd(rel[s].relative_hst_gaia_pmra_wmean_error2, wra.wmean_error2),
             hst_gaia_pmdec_wmean |->
                 RAdd(rel[s].relative_hst_gaia_pmdec_wmean, wdec.wmean),
             hst_gaia_pmdec_wmean_error2 |->
                 RAdd(rel[s].relative_hst_gaia_pmdec_wmean_error2, wdec.wmean_error2),
             hst_gaia_pmra_mean |->
                 RAdd(rel[s].relative_hst_gaia_pmra_mean, mra.mean),
             hst_gaia_pmra_mean_error2 |->
                 RAdd(rel[s].relative_hst_gaia_pmra_mean_error2, mra.mean_error2),
             hst_gaia_pmdec_mean |->
                 RAdd(rel[s].relative_hst_gaia_pmdec_mean, mdec.mean),
             hst_gaia_pmdec_mean_error2 |->
                 RAdd(rel[s].relative_hst_gaia_pmdec_mean_error2, mdec.mean_error2)]]

\* cat_: [Stars -> catalog columns], rel: [Stars -> aggregated columns].
absolute_pm(cat_, rel) ==
    LET pm_differences_ra ==
            [s \in Stars |-> RSub(cat_[s].pmra, rel[s].relative_hst_gaia_pmra_wmean)]
        pm_differences_dec ==
            [s \in Stars |-> RSub(cat_[s].pmdec, rel[s].relative_hst_gaia_pmdec_wmean)]
        pm_differences_ra_error2 ==
            [s \in Stars |-> RAdd(cat_[s].pmra_error2,
                                  rel[s].relative_hst_gaia_pmra_wmean_error2)]
        pm_differences_dec_error2 ==
            [s \in Stars |-> RAdd(cat_[s].pmdec_error2,
                                  rel[s].relative_hst_gaia_pmdec_wmean_error2)]
        wra == weighted_avg_err(pm_differences_ra, pm_differences_ra_error2)
        wdec == weighted_avg_err(pm_differences_dec, pm_differences_dec_error2)
        mra == weighted_avg_err(
                   [s \in Stars |-> RSub(cat_[s].pmra, rel[s].relative_hst_gaia_pmra_mean)],
                   [s \in Stars |-> RAdd(cat_[s].pmra_error2,
                                         rel[s].relative_hst_gaia_pmra_mean_error2)])
        mdec == weighted_avg_err(
                   [s \in Stars |-> RSub(cat_[s].pmdec, rel[s].relative_hst_gaia_pmdec_mean)],
                   [s \in Stars |-> RAdd(cat_[s].pmdec_error2,
                                         rel[s].relative_hst_gaia_pmdec_mean_error2)])
    IN  [s \in Stars |->
            [hst_gaia_pmra_wmean |->
                 RAdd(rel[s].relative_hst_gaia_pmra_wmean, wra.wmean),
             hst_gaia_pmra_wmean_error2 |->
                 RAdd(rel[s].relative_hst_gaia_pmra_wmean_error2, wra.wmean_error2),
             hst_gaia_pmdec_wmean |->
                 RAdd(rel[s].relative_hst_gaia_pmdec_wmean, wdec.wmean),
             hst_gaia_pmdec_wmean_error2 |->
                 RAdd(rel[s].relative_hst_gaia_pmdec_wmean_error2, wdec.wmean_error2),
             hst_gaia_pmra_mean |->
                 RAdd(rel[s].relative_hst_gaia_pmra_mean, mra.mean),
             hst_gaia_pmra_mean_error2 |->
                 RAdd(rel[s].relative_hst_gaia_pmra_mean_error2, mra.mean_error2),
             hst_gaia_pmdec_mean |->
                 RAdd(rel[s].relative_hst_gaia_pmdec_mean, mdec.mean),
             hst_gaia_pmdec_mean_error2 |->
                 RAdd(rel[s].relative_hst_gaia_pmdec_mean_error2, mdec.mean_error2)]]

(***************************************************************************)
(* The Convergence Controller launch_xym2pm_Gaia, v1 and v5.               *)
(***************************************************************************)
VARIABLES
    version,              \* "v1" or "v5": which launch_xym2pm_Gaia runs
    only_use_members,     \* argument only_use_members
    rewind_stars,         \* argument rewind_stars (v5)
    n_images,             \* the number of selected images
    pc,                   \* the controller's position
    iteration,            \* local iteration
    convergence,          \* local convergence
    use_for_alignment,    \* column Gaia_HST_table['use_for_alignment']
    clustering_data,      \* column Gaia_HST_table['clustering_data']
    new_use_for_alignment,\* local new_use_for_alignment
    args,                 \* local args: one tuple per image
    lnks,                 \* local lnks: the workers' results
    has_averaged,         \* whether the table holds the averaged columns
    table_filters,        \* the filter columns the table holds
    relative_pm,          \* the table's relative_hst_gaia_* columns
    absolute,             \* the table's hst_gaia_* columns
    pm_evo_last,          \* pmra_evo[-1], pmdec_evo[-1]
    n_pm_evo,             \* len(pmra_evo) = len(pmdec_evo)
    n_pm_diff_evo,        \* len(pmra_diff_evo) = len(pmdec_diff_evo)
    n_lsqt_evo,           \* len(hst_gaia_pmra_lsqt_evo)
    warning,              \* the max-iterations warning was printed
    outcome,              \* "", "table", or the message or exception that ended the run
    returned,             \* the stars of the returned table
    call,                 \* the arguments of a function studied on its own
    result                \* and what it returned

vars == <<version, only_use_members, rewind_stars, n_images, pc, iteration,
          convergence, use_for_alignment, clustering_data, new_use_for_alignment,
          args, lnks, has_averaged, table_filters, relative_pm, absolute,
          pm_evo_last, n_pm_evo, n_pm_diff_evo, n_lsqt_evo, warning, outcome,
          returned, call, result>>

\* Argument min_stars_alignment, scaled to the model's catalog.
min_stars_alignment == 1

\* The iteration caps: "iteration > 4" (v1) and "iteration > 19" (v5).
MaxIterV1 == 4
MaxIterV5 == 19

\* Faulty variant: the cap test is off by one.
max_iterations_reached_late(ver, it) ==
    IF ver = "v1" THEN it > MaxIterV1 + 1 ELSE it > MaxIterV5 + 1

\* "if iteration > 4" (v1), "if iteration > 19" (v5): the last iteration.
max_iterations_reached(ver, it) ==
    IF ver = "v1" THEN it > MaxIterV1 ELSE it > MaxIterV5

NoColumn == <<>>
NoMatchMessage == "No match could be found for any of the images"

AllTrue == [s \in Stars |-> TRUE]
AllFalse == [s \in Stars |-> FALSE]
NullEvo == [s \in Stars |-> <<NaN, NaN>>]

NoCall == <<>>
NoResult == <<>>

Init ==
    /\ call = NoCall
    /\ result = NoResult
    /\ version \in {"v1", "v5"}
    /\ only_use_members \in BOOLEAN
    /\ rewind_stars \in (IF version = "v5" THEN BOOLEAN ELSE {FALSE})
    /\ n_images \in 0..MaxFrames
    /\ pc = "PER_FRAME_TRANSFORM"
    /\ iteration = 0
    /\ convergence = FALSE
       \* v5 line 1023: all true.  v1: main seeds the flags from the Gaia
       \* membership (member_cmd_gaia & member_pm_gaia), or sets them all true.
    /\ IF version = "v1" /\ only_use_members
       THEN /\ clustering_data \in [Stars -> BOOLEAN]
            /\ use_for_alignment \in
                 {u \in [Stars -> BOOLEAN] : \A s \in Stars : u[s] => clustering_data[s]}
       ELSE /\ clustering_data = NoColumn
            /\ use_for_alignment = AllTrue
    /\ new_use_for_alignment = NoColumn
    /\ args = <<>>
    /\ lnks = <<>>
    /\ has_averaged = FALSE
    /\ table_filters = {}
    /\ relative_pm = [s \in Stars |-> NullAggregate]
    /\ absolute = [s \in Stars |-> NullAbsolute]
    /\ pm_evo_last = NullEvo
    /\ n_pm_evo = 0
    /\ n_pm_diff_evo = 0
    /\ n_lsqt_evo = 0
    /\ warning = FALSE
    /\ outcome = ""
    /\ returned = {}

Images == 1..n_images

(***************************************************************************)
(* PER_FRAME_TRANSFORM, dispatch: the loop that builds args.  At iteration *)
(* 0 a field with fewer than min_stars_alignment alignment stars has all   *)
(* its flags set; every image gets a copy of its field's rows.             *)
(***************************************************************************)
RECURSIVE flags_after_every_iteration(_, _, _)
\* Faulty variant: the reset is made at every iteration.
flags_after_every_iteration(f, flags, it) ==
    IF f = 0 THEN flags
    ELSE LET before == flags_after_every_iteration(f - 1, flags, it)
             field == find_stars_to_align(f)
             u_field_stars == Cardinality({s \in field : before[s]})
         IN  IF u_field_stars < min_stars_alignment
             THEN [s \in Stars |-> IF s \in field THEN TRUE ELSE before[s]]
             ELSE before

RECURSIVE flags_after(_, _, _)
\* The flags after the loop has handled images 1..f (iteration 0).
flags_after(f, flags, it) ==
    IF f = 0 THEN flags
    ELSE LET before == flags_after(f - 1, flags, it)
             field == find_stars_to_align(f)
             u_field_stars == Cardinality({s \in field : before[s]})
         IN  IF it = 0 /\ u_field_stars < min_stars_alignment
             THEN [s \in Stars |-> IF s \in field THEN TRUE ELSE before[s]]
             ELSE before

build_args(flags, it, n) ==
    [f \in 1..n |->
        [iteration |-> it,
         Gaia_HST_table_field |->
             [s \in find_stars_to_align(f) |-> flags_after(f, flags, it)[s]]]]

Dispatch ==
    /\ pc = "PER_FRAME_TRANSFORM"
    /\ ~convergence
    /\ args' = build_args(use_for_alignment, iteration, n_images)
    /\ use_for_alignment' = flags_after(n_images, use_for_alignment, iteration)
    /\ lnks' = [f \in Images |-> Pending]
    /\ pc' = "BARRIER"
    /\ UNCHANGED <<call, result, version, only_use_members, rewind_stars, n_images, iteration,
                   convergence, clustering_data, new_use_for_alignment, has_averaged,
                   table_filters, relative_pm, absolute, pm_evo_last, n_pm_evo,
                   n_pm_diff_evo, n_lsqt_evo, warning, outcome, returned>>

(***************************************************************************)
(* The worker xym2pm_Gaia with its Quality Gate check_mat.  failure names  *)
(* the step that raises, if one does: opening the image and reading its    *)
(* header, writing the star subset, launching the transformer, reading the *)
(* MAT file in check_mat, reading the LNK file.  (A transformer that runs  *)
(* and fails leaves no MAT file: that is a failure of check_mat.)          *)
(* valid_mat is what check_mat returns: normality, centroid, sample size.  *)
(***************************************************************************)
Steps == {"fits_open", "write_table", "Popen", "check_mat", "read_lnk"}
Failures == Steps \cup {"none"}

\* The steps inside the try block, whose exceptions give pd.DataFrame().
inside_try(step) == step \in {"check_mat", "read_lnk"}

all(valid) == \A i \in DOMAIN valid : valid[i]

xym2pm_Gaia(f, failure, valid_mat, m) ==
    IF failure \in Steps /\ ~inside_try(failure) THEN Raised
    ELSE IF failure \in Steps THEN EmptyDataFrame
    ELSE IF all(valid_mat) THEN MatchTable(f, m)
    ELSE EmptyDataFrame

\* One worker of pool.map (or one turn of the serial loop) returns.
Worker(f) ==
    /\ pc = "BARRIER"
    /\ f \in Images
    /\ lnks[f] = Pending
    /\ \E failure \in Failures, valid_mat \in [1..3 -> BOOLEAN], m \in LnkAlternatives(f) :
          lnks' = [lnks EXCEPT ![f] = xym2pm_Gaia(f, failure, valid_mat, m)]
    /\ UNCHANGED <<call, result, version, only_use_members, rewind_stars, n_images, pc, iteration,
                   convergence, use_for_alignment, clustering_data,
                   new_use_for_alignment, args, has_averaged, table_filters,
                   relative_pm, absolute, pm_evo_last, n_pm_evo, n_pm_diff_evo,
                   n_lsqt_evo, warning, outcome, returned>>

\* Faulty variant: the results are merged as soon as one worker has returned
\* (results streamed, no join).
Barrier_first_result ==
    /\ pc = "BARRIER"
    /\ \E f \in Images : lnks[f] # Pending
    /\ pc' = "AGGREGATE"
    /\ UNCHANGED <<call, result, version, only_use_members, rewind_stars, n_images, iteration,
                   convergence, use_for_alignment, clustering_data,
                   new_use_for_alignment, args, lnks, has_averaged, table_filters,
                   relative_pm, absolute, pm_evo_last, n_pm_evo, n_pm_diff_evo,
                   n_lsqt_evo, warning, outcome, returned>>

\* pool.map has returned every result; a worker's exception is re-raised in
\* the controller.  Then pd.concat, whose failure is the global abort.
Barrier ==
    /\ pc = "BARRIER"
    /\ \A f \in Images : lnks[f] # Pending
    /\ IF \E f \in Images : lnks[f] = Raised
       THEN pc' = "CRASH" /\ outcome' = "exception raised in xym2pm_Gaia"
       ELSE IF pd_concat_raises(lnks)
       THEN pc' = "ABORT" /\ outcome' = NoMatchMessage
       ELSE pc' = "AGGREGATE" /\ outcome' = outcome
    /\ UNCHANGED <<call, result, version, only_use_members, rewind_stars, n_images, iteration,
                   convergence, use_for_alignment, clustering_data,
                   new_use_for_alignment, args, lnks, has_averaged, table_filters,
                   relative_pm, absolute, pm_evo_last, n_pm_evo, n_pm_diff_evo,
                   n_lsqt_evo, warning, returned>>

(***************************************************************************)
(* AGGREGATE: groupby/apply, the quadrature sums (which raise KeyError on  *)
(* an empty lnks_averaged), the drop of the columns of the previous        *)
(* iteration (any KeyError swallowed) and the join (which raises           *)
(* ValueError when a column is still there).                               *)
(***************************************************************************)
drop_raises(filters_now, new_filters, averaged_before) ==
    ~averaged_before \/ ~(new_filters \subseteq filters_now)

join_raises(filters_now, new_filters, averaged_before) ==
    averaged_before /\ drop_raises(filters_now, new_filters, averaged_before)

Aggregate ==
    /\ pc = "AGGREGATE"
    /\ LET cat == pd_concat(lnks)
           new_filters == concat_filters(lnks)
       IN  IF cat = <<>>
           THEN /\ pc' = "CRASH"
                /\ outcome' = "KeyError"
                /\ UNCHANGED <<has_averaged, table_filters, relative_pm>>
           ELSE IF join_raises(table_filters, new_filters, has_averaged)
           THEN /\ pc' = "CRASH"
                /\ outcome' = "ValueError"
                /\ UNCHANGED <<has_averaged, table_filters, relative_pm>>
           ELSE /\ relative_pm' = lnks_averaged(cat, version)
                /\ table_filters' = table_filters \cup new_filters
                /\ has_averaged' = TRUE
                /\ pc' = IF version = "v5" THEN "CALIBRATE"
                         ELSE IF only_use_members THEN "MEMBERSHIP_UPDATE"
                         ELSE "CONVERGENCE_CHECK"
                /\ outcome' = outcome
    /\ UNCHANGED <<call, result, version, only_use_members, rewind_stars, n_images, iteration,
                   convergence, use_for_alignment, clustering_data,
                   new_use_for_alignment, args, lnks, absolute, pm_evo_last,
                   n_pm_evo, n_pm_diff_evo, n_lsqt_evo, warning, returned>>

\* Faulty variant: the membership update follows also when only_use_members
\* is off.
Calibrate_then_membership ==
    /\ pc = "CALIBRATE"
    /\ absolute' = absolute_pm([s \in Stars |-> Gaia_table(s)], relative_pm)
    /\ pc' = "MEMBERSHIP_UPDATE"
    /\ UNCHANGED <<call, result, version, only_use_members, rewind_stars, n_images, iteration,
                   convergence, use_for_alignment, clustering_data,
                   new_use_for_alignment, args, lnks, has_averaged, table_filters,
                   relative_pm, pm_evo_last, n_pm_evo, n_pm_diff_evo, n_lsqt_evo,
                   warning, outcome, returned>>

\* Faulty variant: the absolute proper motions of the previous iteration are
\* kept.
Calibrate_reused ==
    /\ pc = "CALIBRATE"
    /\ pc' = IF only_use_members THEN "MEMBERSHIP_UPDATE" ELSE "CONVERGENCE_CHECK"
    /\ UNCHANGED <<call, result, version, only_use_members, rewind_stars, n_images, iteration,
                   convergence, use_for_alignment, clustering_data,
                   new_use_for_alignment, args, lnks, has_averaged, table_filters,
                   relative_pm, absolute, pm_evo_last, n_pm_evo, n_pm_diff_evo,
                   n_lsqt_evo, warning, outcome, returned>>

\* CALIBRATE (v5): Gaia_HST_table = absolute_pm(Gaia_HST_table.join(...)).
Calibrate ==
    /\ pc = "CALIBRATE"
    /\ absolute' = absolute_pm([s \in Stars |-> Gaia_table(s)], relative_pm)
    /\ pc' = IF only_use_members THEN "MEMBERSHIP_UPDATE" ELSE "CONVERGENCE_CHECK"
    /\ UNCHANGED <<call, result, version, only_use_members, rewind_stars, n_images, iteration,
                   convergence, use_for_alignment, clustering_data,
                   new_use_for_alignment, args, lnks, has_averaged, table_filters,
                   relative_pm, pm_evo_last, n_pm_evo, n_pm_diff_evo, n_lsqt_evo,
                   warning, outcome, returned>>

(***************************************************************************)
(* MEMBERSHIP_UPDATE.  At iteration 0 the candidates (clustering_data) are *)
(* selected by hand in the colour-magnitude diagram; every iteration the   *)
(* mixture model labels the stars in proper-motion space.  The labels of   *)
(* pm_cleaning_GMM_recursive are an input here: a label exists only for a  *)
(* star with both relative proper motions, and only when the first round   *)
(* finds more than one candidate among those.                              *)
(***************************************************************************)
has_vars(rel, s) ==
    /\ notnull(rel[s].relative_hst_gaia_pmra_wmean)
    /\ notnull(rel[s].relative_hst_gaia_pmdec_wmean)

pm_clustering_outcomes(rel, candidates) ==
    IF Cardinality({s \in Stars : has_vars(rel, s) /\ candidates[s]}) > 1
    THEN {l \in [Stars -> BOOLEAN] : \A s \in Stars : l[s] => has_vars(rel, s)}
    ELSE {AllFalse}

MembershipUpdate ==
    /\ pc = "MEMBERSHIP_UPDATE"
    /\ \E cmd \in [Stars -> BOOLEAN] :
          clustering_data' = IF iteration = 0 THEN cmd ELSE clustering_data
    /\ \E pm_clustering \in pm_clustering_outcomes(relative_pm, clustering_data') :
          new_use_for_alignment' =
              [s \in Stars |-> pm_clustering[s] /\ clustering_data'[s]]
    /\ use_for_alignment' = IF version = "v5" THEN new_use_for_alignment'
                            ELSE use_for_alignment
    /\ pc' = "CONVERGENCE_CHECK"
    /\ UNCHANGED <<call, result, version, only_use_members, rewind_stars, n_images, iteration,
                   convergence, args, lnks, has_averaged, table_filters, relative_pm,
                   absolute, pm_evo_last, n_pm_evo, n_pm_diff_evo, n_lsqt_evo,
                   warning, outcome, returned>>

(***************************************************************************)
(* CONVERGENCE_CHECK, v1: the flags of the previous iteration are still in *)
(* the table when the new ones are compared with them.  Without            *)
(* only_use_members the loop runs once.                                    *)
(***************************************************************************)
\* Faulty variant: only the first element is compared.
array_equal_first(a, b) == a[1] = b[1]

array_equal(a, b) == a = b

\* Faulty variant: the flags are overwritten with the new membership also on
\* the iteration that declares convergence.
ConvergenceCheckV1_overwrites ==
    /\ pc = "CONVERGENCE_CHECK"
    /\ version = "v1"
    /\ IF only_use_members
       THEN /\ convergence' =
                  IF max_iterations_reached(version, iteration) THEN TRUE
                  ELSE IF iteration > 0
                  THEN array_equal(use_for_alignment, new_use_for_alignment)
                  ELSE convergence
            /\ warning' = (warning \/ max_iterations_reached(version, iteration))
            /\ use_for_alignment' = new_use_for_alignment
            /\ iteration' = iteration + 1
       ELSE /\ convergence' = TRUE
            /\ UNCHANGED <<warning, use_for_alignment, iteration>>
    /\ pc' = "PER_FRAME_TRANSFORM"
    /\ UNCHANGED <<call, result, version, only_use_members, rewind_stars, n_images,
                   clustering_data, new_use_for_alignment, args, lnks, has_averaged,
                   table_filters, relative_pm, absolute, pm_evo_last, n_pm_evo,
                   n_pm_diff_evo, n_lsqt_evo, outcome, returned>>

ConvergenceCheckV1 ==
    /\ pc = "CONVERGENCE_CHECK"
    /\ version = "v1"
    /\ IF only_use_members
       THEN /\ convergence' =
                  IF max_iterations_reached(version, iteration) THEN TRUE
                  ELSE IF iteration > 0
                  THEN array_equal(use_for_alignment, new_use_for_alignment)
                  ELSE convergence
            /\ warning' = (warning \/ max_iterations_reached(version, iteration))
            /\ use_for_alignment' =
                  IF ~convergence' THEN new_use_for_alignment ELSE use_for_alignment
            /\ iteration' = iteration + 1
       ELSE /\ convergence' = TRUE
            /\ UNCHANGED <<warning, use_for_alignment, iteration>>
    /\ pc' = "PER_FRAME_TRANSFORM"
    /\ UNCHANGED <<call, result, version, only_use_members, rewind_stars, n_images,
                   clustering_data, new_use_for_alignment, args, lnks, has_averaged,
                   table_filters, relative_pm, absolute, pm_evo_last, n_pm_evo,
                   n_pm_diff_evo, n_lsqt_evo, outcome, returned>>

(***************************************************************************)
(* CONVERGENCE_CHECK, v5: the statistics over the stars with finite        *)
(* absolute proper motions, and the drift test against a tenth of the mean *)
(* relative error.                                                         *)
(***************************************************************************)
id_pms(abs) ==
    {s \in Stars : isfinite(abs[s].hst_gaia_pmra_wmean)
                   /\ isfinite(abs[s].hst_gaia_pmdec_wmean)}

\* What is appended to pmra_evo and pmdec_evo: the Series of the stars of
\* id_pms; a star outside it has no entry (a null once two Series align).
pm_evo_entry(abs) ==
    [s \in Stars |-> IF s \in id_pms(abs)
                     THEN <<abs[s].hst_gaia_pmra_wmean, abs[s].hst_gaia_pmdec_wmean>>
                     ELSE <<NaN, NaN>>]

nanmean(xs) == SeriesMean(xs)

\* np.nanmean(pm_evo[-1] - pm_evo[-2]) for component c (1: ra, 2: dec).
pm_diff(evo_last, evo_before, c) ==
    nanmean([s \in Stars |-> RSub(evo_last[s][c], evo_before[s][c])])

threshold(abs, rel) ==
    LET ra_error == [s \in Stars |->
                        IF s \in id_pms(abs)
                        THEN RSqrt(rel[s].relative_hst_gaia_pmra_wmean_error2) ELSE NaN]
        dec_error == [s \in Stars |->
                        IF s \in id_pms(abs)
                        THEN RSqrt(rel[s].relative_hst_gaia_pmdec_wmean_error2) ELSE NaN]
    IN  RMul(nanmean(<<SeriesMean(ra_error), SeriesMean(dec_error)>>), R(1, 10))

\* Faulty variant: the declination component is not tested.
drift_convergence_pmra_only(evo_last, evo_before, abs, rel) ==
    RLeq(RAbs(pm_diff(evo_last, evo_before, 1)), threshold(abs, rel))

drift_convergence(evo_last, evo_before, abs, rel) ==
    /\ RLeq(RAbs(pm_diff(evo_last, evo_before, 1)), threshold(abs, rel))
    /\ RLeq(RAbs(pm_diff(evo_last, evo_before, 2)), threshold(abs, rel))

\* Faulty variant: without only_use_members convergence is declared in the
\* first test whatever rewind_stars is.
ConvergenceCheckV5_ignores_rewind ==
    /\ pc = "CONVERGENCE_CHECK"
    /\ version = "v5"
    /\ pm_evo_last' = pm_evo_entry(absolute)
    /\ n_pm_evo' = n_pm_evo + 1
    /\ n_lsqt_evo' = n_lsqt_evo + 1
    /\ LET first == IF only_use_members THEN convergence
                    ELSE IF TRUE THEN TRUE
                    ELSE IF max_iterations_reached(version, iteration) THEN TRUE
                    ELSE convergence
       IN  IF max_iterations_reached(version, iteration)
           THEN /\ warning' = TRUE
                /\ convergence' = TRUE
                /\ n_pm_diff_evo' = n_pm_diff_evo
           ELSE IF iteration > 0
           THEN /\ warning' = warning
                /\ convergence' = drift_convergence(pm_evo_last', pm_evo_last,
                                                    absolute, relative_pm)
                /\ n_pm_diff_evo' = n_pm_diff_evo + 1
           ELSE /\ warning' = warning
                /\ convergence' = first
                /\ n_pm_diff_evo' = n_pm_diff_evo
    /\ iteration' = iteration + 1
    /\ pc' = "PER_FRAME_TRANSFORM"
    /\ UNCHANGED <<call, result, version, only_use_members, rewind_stars, n_images,
                   use_for_alignment, clustering_data, new_use_for_alignment, args,
                   lnks, has_averaged, table_filters, relative_pm, absolute, outcome,
                   returned>>

ConvergenceCheckV5 ==
    /\ pc = "CONVERGENCE_CHECK"
    /\ version = "v5"
    /\ pm_evo_last' = pm_evo_entry(absolute)
    /\ n_pm_evo' = n_pm_evo + 1
    /\ n_lsqt_evo' = n_lsqt_evo + 1
    /\ LET first == IF only_use_members THEN convergence
                    ELSE IF ~rewind_stars THEN TRUE
                    ELSE IF max_iterations_reached(version, iteration) THEN TRUE
                    ELSE convergence
       IN  IF max_iterations_reached(version, iteration)
           THEN /\ warning' = TRUE
                /\ convergence' = TRUE
                /\ n_pm_diff_evo' = n_pm_diff_evo
           ELSE IF iteration > 0
           THEN /\ warning' = warning
                /\ convergence' = drift_convergence(pm_evo_last', pm_evo_last,
                                                    absolute, relative_pm)
                /\ n_pm_diff_evo' = n_pm_diff_evo + 1
           ELSE /\ warning' = warning
                /\ convergence' = first
                /\ n_pm_diff_evo' = n_pm_diff_evo
    /\ iteration' = iteration + 1
    /\ pc' = "PER_FRAME_TRANSFORM"
    /\ UNCHANGED <<call, result, version, only_use_members, rewind_stars, n_images,
                   use_for_alignment, clustering_data, new_use_for_alignment, args,
                   lnks, has_averaged, table_filters, relative_pm, absolute, outcome,
                   returned>>

\* The rows of the final table: those with both relative proper motions.
final_table(rel) == {s \in Stars : has_vars(rel, s)}

\* The loop has ended: the final table is returned.
Return ==
    /\ pc = "PER_FRAME_TRANSFORM"
    /\ convergence
    /\ returned' = final_table(relative_pm)
    /\ outcome' = "table"
    /\ pc' = "DONE"
    /\ UNCHANGED <<call, result, version, only_use_members, rewind_stars, n_images, iteration,
                   convergence, use_for_alignment, clustering_data,
                   new_use_for_alignment, args, lnks, has_averaged, table_filters,
                   relative_pm, absolute, pm_evo_last, n_pm_evo, n_pm_diff_evo,
                   n_lsqt_evo, warning>>

Next ==
    \/ Dispatch
    \/ \E f \in Frames : Worker(f)
    \/ Barrier
    \/ Aggregate
    \/ Calibrate
    \/ MembershipUpdate
    \/ ConvergenceCheckV1
    \/ ConvergenceCheckV5
    \/ Return

Spec == Init /\ [][Next]_vars

(***************************************************************************)
(* weighted_avg_err and absolute_pm on their own: the arguments are drawn  *)
(* from small sets, the function is applied, launch_xym2pm_Gaia is not     *)
(* running.                                                                *)
(***************************************************************************)
controller == <<version, only_use_members, rewind_stars, n_images, pc, iteration,
                convergence, use_for_alignment, clustering_data,
                new_use_for_alignment, args, lnks, has_averaged, table_filters,
                relative_pm, absolute, pm_evo_last, n_pm_evo, n_pm_diff_evo,
                n_lsqt_evo, warning, outcome, returned>>

NotRunning ==
    /\ version = "v5"
    /\ only_use_members = FALSE
    /\ rewind_stars = FALSE
    /\ n_images = 0
    /\ pc = "NOT_RUNNING"
    /\ iteration = 0
    /\ convergence = FALSE
    /\ use_for_alignment = AllTrue
    /\ clustering_data = NoColumn
    /\ new_use_for_alignment = NoColumn
    /\ args = <<>>
    /\ lnks = <<>>
    /\ has_averaged = FALSE
    /\ table_filters = {}
    /\ relative_pm = [s \in Stars |-> NullAggregate]
    /\ absolute = [s \in Stars |-> NullAbsolute]
    /\ pm_evo_last = NullEvo
    /\ n_pm_evo = 0
    /\ n_pm_diff_evo = 0
    /\ n_lsqt_evo = 0
    /\ warning = FALSE
    /\ outcome = ""
    /\ returned = {}

\* The rows of one group: a value with its error squared.  A filter column
\* is null, value and error, in the rows of the frames of another filter.
MaxRows == 3
Measurements ==
    {[x |-> R(1, 1), x_error2 |-> R(1, 4)], [x |-> R(2, 1), x_error2 |-> One],
     [x |-> R(2, 1), x_error2 |-> R(1, 4)], [x |-> NaN, x_error2 |-> NaN]}

InitAgg ==
    /\ NotRunning
    /\ call \in {[table |-> t] : t \in UNION {[1..n -> Measurements] : n \in 1..MaxRows}}
    /\ result = NoResult

ApplyWeightedAvgErr ==
    /\ result = NoResult
    /\ result' = [statistics |-> weighted_avg_err(Column(call.table, "x"),
                                                  Column(call.table, "x_error2")),
                  x_wmean_error |-> weighted_avg_error(Column(call.table, "x"),
                                                       Column(call.table, "x_error2"))]
    /\ UNCHANGED <<call, controller>>

NextAgg == ApplyWeightedAvgErr

SpecAgg == InitAgg /\ [][NextAgg]_vars

\* absolute_pm on a table, and on the same table with a constant added to
\* one reference-epoch proper-motion column.  A Gaia source without proper
\* motion has neither the value nor its error; a star in no match table has
\* null aggregates, a star never matched a null mean with an infinite error.
CatalogRows ==
    {[pmra |-> R(1, 1), pmra_error2 |-> One, pmdec |-> R(-1, 2), pmdec_error2 |-> R(1, 4)],
     [pmra |-> R(-3, 2), pmra_error2 |-> R(1, 4), pmdec |-> R(2, 1), pmdec_error2 |-> One],
     [pmra |-> NaN, pmra_error2 |-> NaN, pmdec |-> NaN, pmdec_error2 |-> NaN]}
AggregateRows ==
    {NullAggregate,
     [relative_hst_gaia_pmra_wmean |-> NaN, relative_hst_gaia_pmra_wmean_error2 |-> PInf,
      relative_hst_gaia_pmdec_wmean |-> NaN, relative_hst_gaia_pmdec_wmean_error2 |-> PInf,
      relative_hst_gaia_pmra_mean |-> NaN, relative_hst_gaia_pmra_mean_error2 |-> NaN,
      relative_hst_gaia_pmdec_mean |-> NaN, relative_hst_gaia_pmdec_mean_error2 |-> NaN],
     [relative_hst_gaia_pmra_wmean |-> R(1, 2), relative_hst_gaia_pmra_wmean_error2 |-> R(1, 4),
      relative_hst_gaia_pmdec_wmean |-> R(-1, 1), relative_hst_gaia_pmdec_wmean_error2 |-> One,
      relative_hst_gaia_pmra_mean |-> R(1, 2), relative_hst_gaia_pmra_mean_error2 |-> NaN,
      relative_hst_gaia_pmdec_mean |-> R(-1, 1), relative_hst_gaia_pmdec_mean_error2 |-> NaN],
     [relative_hst_gaia_pmra_wmean |-> R(2, 1), relative_hst_gaia_pmra_wmean_error2 |-> One,
      relative_hst_gaia_pmdec_wmean |-> R(1, 3), relative_hst_gaia_pmdec_wmean_error2 |-> R(1, 2),
      relative_hst_gaia_pmra_mean |-> R(3, 2), relative_hst_gaia_pmra_mean_error2 |-> R(1, 2),
      relative_hst_gaia_pmdec_mean |-> R(1, 2), relative_hst_gaia_pmdec_mean_error2 |-> R(1, 4)]}
Shifts == {R(-1, 1), R(1, 2), R(3, 1)}
Components == {"pmra", "pmdec"}

\* table[column] += D
add_constant(cat_, column, D) ==
    [s \in Stars |-> [cat_[s] EXCEPT ![column] = RAdd(@, D)]]

InitAbs ==
    /\ NotRunning
    /\ call \in [cat : [Stars -> CatalogRows], rel : [Stars -> AggregateRows],
                 D : Shifts, column : Components]
    /\ result = NoResult

ApplyAbsolutePm ==
    /\ result = NoResult
    /\ result' = [table |-> absolute_pm(call.cat, call.rel),
                  shifted |-> absolute_pm(add_constant(call.cat, call.column, call.D),
                                          call.rel)]
    /\ UNCHANGED <<call, controller>>

NextAbs == ApplyAbsolutePm

SpecAbs == InitAbs /\ [][NextAbs]_vars

(***************************************************************************)
(* Properties of the convergence controller.                               *)
(***************************************************************************)
\* An iteration has been started and its convergence check is not yet over.
InIteration ==
    pc \in {"BARRIER", "AGGREGATE", "CALIBRATE", "MEMBERSHIP_UPDATE", "CONVERGENCE_CHECK"}

\* The index of the last iteration that may start: 5 (v1), 20 (v5).
LastIteration == IF version = "v1" THEN MaxIterV1 + 1 ELSE MaxIterV5 + 1

\* Some per-frame call did not return: it raised.
WorkerRaised == \E f \in DOMAIN lnks : lnks[f] = Raised

\* The flags the controller held when it dispatched the current iteration,
\* the "vector of the previous iteration" (image 1 covers every star).
PreviousFlags == [s \in Stars |-> args[1].Gaia_HST_table_field[s]]

\* The change of the absolute proper motions (component c: 1 ra, 2 dec) of the
\* stars measured in this iteration and in the previous one.
AbsoluteNow(s, c) ==
    IF c = 1 THEN absolute[s].hst_gaia_pmra_wmean ELSE absolute[s].hst_gaia_pmdec_wmean
Measured(s) == isfinite(AbsoluteNow(s, 1)) /\ isfinite(AbsoluteNow(s, 2))
Change(c) ==
    [s \in Stars |-> IF Measured(s) THEN RSub(AbsoluteNow(s, c), pm_evo_last[s][c])
                     ELSE NaN]
AbsOfMeanChange(c) == RAbs(SeriesMean(Change(c)))
MeanOfAbsChange(c) == SeriesMean([s \in Stars |-> RAbs(Change(c)[s])])

\* One tenth of the mean relative proper-motion error of the measured stars,
\* both components together.
TenthOfMeanError ==
    LET ra == [s \in Stars |->
                 IF Measured(s)
                 THEN RSqrt(relative_pm[s].relative_hst_gaia_pmra_wmean_error2) ELSE NaN]
        dec == [s \in Stars |->
                 IF Measured(s)
                 THEN RSqrt(relative_pm[s].relative_hst_gaia_pmdec_wmean_error2) ELSE NaN]
    IN  RMul(SeriesMean(ra \o dec), R(1, 10))

\* The drift test on the mean of the signed changes.
SignedDriftBelowThreshold ==
    /\ RLeq(AbsOfMeanChange(1), TenthOfMeanError)
    /\ RLeq(AbsOfMeanChange(2), TenthOfMeanError)

\* The drift test on the mean of the absolute changes.
AbsoluteDriftBelowThreshold ==
    /\ RLeq(MeanOfAbsChange(1), TenthOfMeanError)
    /\ RLeq(MeanOfAbsChange(2), TenthOfMeanError)

\* No iteration with an index above the cap is started.
IterationWithinCap == InIteration => iteration <= LastIteration

\* The run has stopped: no step of the controller follows.
Stopped == pc \in {"DONE", "ABORT", "CRASH"}

\* C1: whatever the frames and the per-frame results, no iteration with an
\* index above the cap (5 in v1, 20 in v5) is started, and a run in which
\* every per-frame call returned stops only in DONE or in the global abort.
C1_TerminatesWithinCap ==
    /\ IterationWithinCap
    /\ (Stopped /\ ~WorkerRaised) => pc \in {"DONE", "ABORT"}

\* C1: a run in which every per-frame call returned and which ended neither
\* in DONE nor in the global abort.
C1_EndedByException ==
    /\ pc = "CRASH"
    /\ ~WorkerRaised
    /\ iteration <= LastIteration

\* C2 as stated: with only_use_members, in both versions, the check of an
\* iteration k >= 1 declares convergence exactly when the new flags equal
\* those of the previous iteration or the cap is reached (then with the
\* warning); otherwise the loop goes back to PER_FRAME_TRANSFORM.
C2_MembershipIdentityBothVersions ==
    [][(pc = "CONVERGENCE_CHECK" /\ only_use_members /\ iteration >= 1)
       => /\ convergence' <=> (iteration >= LastIteration
                               \/ new_use_for_alignment = PreviousFlags)
          /\ warning' <=> (iteration >= LastIteration)
          /\ pc' = "PER_FRAME_TRANSFORM"]_vars

\* C2 amended: with only_use_members, the check of an iteration k >= 1
\* declares convergence, in v1, exactly when the new flags equal those of the
\* previous iteration or the cap (index 5) is reached; in v5, exactly when the
\* drift of the absolute proper motions is below the threshold or the cap
\* (index 20) is reached, whatever the flags.  The warning is given exactly at
\* the cap; otherwise the loop goes back to PER_FRAME_TRANSFORM.
C2_MembershipConvergence ==
    [][(pc = "CONVERGENCE_CHECK" /\ only_use_members /\ iteration >= 1)
       => /\ IF version = "v1"
             THEN convergence' <=> (iteration >= LastIteration
                                    \/ new_use_for_alignment = PreviousFlags)
             ELSE convergence' <=> (iteration >= LastIteration
                                    \/ SignedDriftBelowThreshold)
          /\ warning' <=> (iteration >= LastIteration)
          /\ pc' = "PER_FRAME_TRANSFORM"]_vars

\* C2: v5 with only_use_members has converged below the cap, at an iteration
\* k >= 1, with new flags that differ from those of the previous iteration.
C2_ConvergedWithNewFlags ==
    /\ version = "v5"
    /\ only_use_members
    /\ pc = "PER_FRAME_TRANSFORM"
    /\ iteration >= 2
    /\ convergence
    /\ ~warning
    /\ new_use_for_alignment # PreviousFlags

\* C3 as stated: in v5 the check of an iteration k >= 1 below the cap declares
\* convergence exactly when, in both components, the mean over the stars of
\* the absolute change of the absolute proper motion is at most a tenth of
\* the mean relative error; at the cap it converges with the warning.
C3_MeanAbsoluteDrift ==
    [][(pc = "CONVERGENCE_CHECK" /\ version = "v5" /\ iteration >= 1)
       => IF iteration >= LastIteration
          THEN convergence' /\ warning'
          ELSE (convergence' <=> AbsoluteDriftBelowThreshold) /\ ~warning']_vars

\* C3 amended: in v5 the check of an iteration k >= 1 below the cap declares
\* convergence exactly when, in both components, the absolute value of the
\* mean over the stars of the signed change of the absolute proper motion is
\* at most a tenth of the mean relative error; at the cap it converges with
\* the warning.
C3_AbsoluteMeanDrift ==
    [][(pc = "CONVERGENCE_CHECK" /\ version = "v5" /\ iteration >= 1)
       => IF iteration >= LastIteration
          THEN convergence' /\ warning'
          ELSE (convergence' <=> SignedDriftBelowThreshold) /\ ~warning']_vars

\* C3: v5 has converged by the drift test, below the cap, on measured stars.
C3_ConvergedByDrift ==
    /\ version = "v5"
    /\ ~only_use_members
    /\ pc = "PER_FRAME_TRANSFORM"
    /\ iteration >= 2
    /\ convergence
    /\ ~warning
    /\ \E s \in Stars : notnull(pm_evo_last[s][1])

\* C4: at the cap the check gives the warning and ends the loop with the
\* table of that iteration; after the warning the run is in the loop's exit
\* or in DONE, where the rows with both relative proper motions of the last
\* iteration are returned; it never aborts.
C4_CapIsNotFailure ==
    /\ [][(pc = "CONVERGENCE_CHECK" /\ iteration >= LastIteration)
          => /\ warning' /\ convergence'
             /\ pc' = "PER_FRAME_TRANSFORM"
             /\ relative_pm' = relative_pm]_vars
    /\ [][(warning /\ pc = "PER_FRAME_TRANSFORM") => pc' = "DONE"]_vars
    /\ [](warning => /\ convergence
                     /\ pc \in {"PER_FRAME_TRANSFORM", "DONE"}
                     /\ pc = "DONE" => /\ outcome = "table"
                                       /\ returned = {s \in Stars : has_vars(relative_pm, s)})

\* C4: the cap was reached and the table returned.
C4_ReturnedAtCap ==
    /\ warning
    /\ pc = "DONE"
    /\ returned # {}
    /\ iteration = LastIteration + 1

\* C5: once the barrier of an iteration has passed with an empty result from
\* every dispatched frame, the run has aborted with the message 'No match
\* could be found for any of the images' and returns no table.
C5_GlobalFailureAborts ==
    (/\ pc \in {"ABORT", "CRASH", "AGGREGATE", "CALIBRATE", "MEMBERSHIP_UPDATE",
                "CONVERGENCE_CHECK"}
     /\ \A f \in DOMAIN lnks : lnks[f] = EmptyDataFrame)
    => (pc = "ABORT" /\ outcome = NoMatchMessage /\ returned = {})

\* C5: every frame of a run with images returned an empty result, and the run
\* ended with a KeyError.
C5_AllEmptyEndedByKeyError ==
    /\ n_images >= 1
    /\ \A f \in DOMAIN lnks : lnks[f] = EmptyDataFrame
    /\ pc = "CRASH"
    /\ outcome = "KeyError"

\* C6 as stated: every dispatch hands every selected image to a worker,
\* whatever the earlier results; a star has aggregated proper motions only
\* from frames that returned a match table; and in an iteration where some
\* frames failed their Quality Gate and others did not, the controller goes on
\* with the others.
C6_FrameFailureIsLocal ==
    /\ [][(pc = "PER_FRAME_TRANSFORM" /\ pc' = "BARRIER")
          => /\ DOMAIN args' = 1..n_images
             /\ \A f \in 1..n_images : lnks'[f] = Pending]_vars
    /\ [](pc \in {"CALIBRATE", "MEMBERSHIP_UPDATE", "CONVERGENCE_CHECK"}
          => \A s \in Stars :
                has_vars(relative_pm, s)
                => \E f \in DOMAIN lnks : lnks[f].kind = "match" /\ s \in DOMAIN lnks[f].rows)
    /\ [][(/\ pc = "AGGREGATE"
           /\ \E f \in DOMAIN lnks : lnks[f] = EmptyDataFrame
           /\ \E f \in DOMAIN lnks : lnks[f].kind = "match")
          => pc' # "CRASH"]_vars

\* C6: a frame failed in an iteration in which another frame was valid, and
\* the run ended with the ValueError of the join.
C6_EndedByJoinError ==
    /\ pc = "CRASH"
    /\ outcome = "ValueError"
    /\ \E f \in DOMAIN lnks : lnks[f] = EmptyDataFrame
    /\ \E f \in DOMAIN lnks : lnks[f].kind = "match"

\* C7 as stated: a worker that fails at any step of xym2pm_Gaia gives an empty
\* result: no worker's outcome is an exception, and no exception of a worker
\* ends the controller.
C7_WorkerFailureDegrades ==
    /\ \A f \in DOMAIN lnks : lnks[f] # Raised
    /\ outcome # "exception raised in xym2pm_Gaia"

\* C7: a worker raised while another frame of the same iteration returned a
\* match table, and the controller ended with the exception.
C7_EndedByWorkerException ==
    /\ pc = "CRASH"
    /\ outcome = "exception raised in xym2pm_Gaia"
    /\ \E f \in DOMAIN lnks : lnks[f].kind = "match"

\* The results of an iteration without the failed frames.
ValidFrames == SelectSeq(lnks, LAMBDA df : df # EmptyDataFrame)

\* C8: the aggregation of an iteration gives every star the aggregate computed
\* from the frames that returned a match table alone, and (v5) the calibration
\* that follows gives the absolute proper motions computed from those
\* aggregates: the failed frames change nothing.
C8_FailedFrameDoesNotAffectAggregate ==
    /\ [][(pc = "AGGREGATE" /\ pc' # "CRASH")
          => relative_pm' = lnks_averaged(pd_concat(ValidFrames), version)]_vars
    /\ [][pc = "CALIBRATE"
          => /\ lnks' = lnks
             /\ relative_pm' = relative_pm
             /\ absolute' = absolute_pm([s \in Stars |-> Gaia_table(s)], relative_pm)]_vars

\* C8: an iteration was aggregated from a failed frame and a valid one.
C8_AggregatedWithFailedFrame ==
    /\ pc = "CONVERGENCE_CHECK"
    /\ \E f \in DOMAIN lnks : lnks[f] = EmptyDataFrame
    /\ \E f \in DOMAIN lnks : lnks[f].kind = "match"
    /\ \E s \in Stars : has_vars(relative_pm, s)

(***************************************************************************)
(* Properties of weighted_avg_err (SpecAgg) and absolute_pm (SpecAbs).     *)
(***************************************************************************)
RECURSIVE SumOver(_, _)
\* The sum of the non-null terms t[1], ..., t[n].
SumOver(t, n) ==
    IF n = 0 THEN Zero
    ELSE IF isnull(t[n]) THEN SumOver(t, n - 1)
    ELSE RAdd(SumOver(t, n - 1), t[n])

\* The measurements (1.0, 0.5) and (2.0, 1.0), errors squared.
TwoMeasurements ==
    <<[x |-> R(1, 1), x_error2 |-> R(1, 4)], [x |-> R(2, 1), x_error2 |-> One]>>

\* C9: weighted_avg_err gives the weighted mean sum(x_i / sigma_i^2) /
\* sum(1 / sigma_i^2) and the weighted variance 1 / sum(1 / sigma_i^2), whose
\* square root is the weighted error; for (1.0, 0.5) and (2.0, 1.0) they are
\* 1.2, 1/5 and 0.447.
C9_WeightedMeanAndVariance ==
    result # NoResult
    => LET t == call.table
           n == Len(t)
           sum_x_w == SumOver([i \in 1..n |-> RDiv(t[i].x, t[i].x_error2)], n)
           sum_w == SumOver([i \in 1..n |-> RDiv(One, t[i].x_error2)], n)
       IN  /\ result.statistics.wmean = RDiv(sum_x_w, sum_w)
           /\ result.statistics.wmean_error2 = RDiv(One, sum_w)
           /\ result.x_wmean_error = RSqrt(RDiv(One, sum_w))
           /\ t = TwoMeasurements
              => /\ result.statistics.wmean = R(12, 10)
                 /\ result.statistics.wmean_error2 = R(1, 5)
                 /\ result.x_wmean_error = R(447, 1000)

\* C9: weighted_avg_err was applied to (1.0, 0.5) and (2.0, 1.0).
C9_AppliedToTwoMeasurements ==
    /\ result # NoResult
    /\ call.table = TwoMeasurements
    /\ notnull(result.statistics.wmean)

\* C10: with D added to every star's reference-epoch proper motion in one
\* component, absolute_pm gives every star's absolute proper motion in that
\* component changed by exactly D (a null stays null), and every absolute
\* error as before.
C10_TranslationConsistent ==
    result # NoResult
    => \A s \in Stars :
          LET before == result.table[s]
              after == result.shifted[s]
          IN  /\ IF call.column = "pmra"
                 THEN /\ after.hst_gaia_pmra_wmean = RAdd(before.hst_gaia_pmra_wmean, call.D)
                      /\ after.hst_gaia_pmra_mean = RAdd(before.hst_gaia_pmra_mean, call.D)
                 ELSE /\ after.hst_gaia_pmdec_wmean = RAdd(before.hst_gaia_pmdec_wmean, call.D)
                      /\ after.hst_gaia_pmdec_mean = RAdd(before.hst_gaia_pmdec_mean, call.D)
              /\ after.hst_gaia_pmra_wmean_error2 = before.hst_gaia_pmra_wmean_error2
              /\ after.hst_gaia_pmdec_wmean_error2 = before.hst_gaia_pmdec_wmean_error2
              /\ after.hst_gaia_pmra_mean_error2 = before.hst_gaia_pmra_mean_error2
              /\ after.hst_gaia_pmdec_mean_error2 = before.hst_gaia_pmdec_mean_error2

\* C10: absolute_pm was applied to a table before and after the shift of
\* pmdec, and some star's absolute pmdec is not null.
C10_ShiftedTable ==
    /\ result # NoResult
    /\ call.column = "pmdec"
    /\ \E s \in Stars :
          /\ notnull(result.table[s].hst_gaia_pmdec_wmean)
          /\ result.shifted[s].hst_gaia_pmdec_wmean # result.table[s].hst_gaia_pmdec_wmean

(***************************************************************************)
(* Properties of the flags and of the returned table.                      *)
(***************************************************************************)
\* A star is a candidate member: its clustering_data, where the column
\* exists; pm_cleaning_GMM_recursive takes every star as a candidate when
\* the table has no such column.
is_candidate_member(s) == clustering_data = NoColumn \/ clustering_data[s]

\* C12: in every state of the controller, every star whose use_for_alignment
\* flag is true is a candidate member.
C12_AlignmentWithinCandidates ==
    \A s \in Stars : use_for_alignment[s] => is_candidate_member(s)

\* C12: the dispatch of iteration 0 has set the flag of a star that is not a
\* candidate, in a field with fewer than min_stars_alignment flagged stars.
C12_ResetFlaggedNonCandidate ==
    /\ pc = "BARRIER"
    /\ iteration = 0
    /\ clustering_data # NoColumn
    /\ \E s \in Stars : use_for_alignment[s] /\ ~clustering_data[s]

\* C14: every star of the final table made from the table absolute_pm
\* returns has a non-null absolute proper motion in both components.
C14_ReturnedStarsHaveAbsolutePm ==
    result # NoResult
    => \A s \in final_table(call.rel) :
          /\ notnull(result.table[s].hst_gaia_pmra_wmean)
          /\ notnull(result.table[s].hst_gaia_pmdec_wmean)

\* C14: a star with both relative proper motions, kept by the final filter,
\* has a null absolute proper motion: no measured star has a Gaia proper
\* motion, and the ensemble offset is null.
C14_ReturnedWithNullAbsolutePm ==
    /\ result # NoResult
    /\ \E s \in final_table(call.rel) :
          /\ isnull(result.table[s].hst_gaia_pmra_wmean)
          /\ isnull(result.table[s].hst_gaia_pmdec_wmean)

(***************************************************************************)
(* Properties of the barrier and of the order of the phases.               *)
(***************************************************************************)
\* The phases of an iteration that follow the barrier.
AfterBarrier == pc \in {"AGGREGATE", "CALIBRATE", "MEMBERSHIP_UPDATE", "CONVERGENCE_CHECK"}

\* C15: the aggregation and the phases after it find the result of every
\* worker dispatched in the iteration; the workers run on the arguments of
\* the current iteration; a result arrives only between the dispatch and the
\* barrier, workers are started only by the dispatch that follows a
\* convergence check, and the aggregates change only in the aggregation,
\* which merges the results of all the frames.
C15_FullBarrier ==
    /\ [](AfterBarrier
          => /\ DOMAIN lnks = Images
             /\ \A f \in Images : lnks[f].kind \in {"match", "empty"})
    /\ [](pc = "BARRIER" => \A f \in Images : args[f].iteration = iteration)
    /\ [][lnks' # lnks
          => \/ pc = "PER_FRAME_TRANSFORM" /\ \A f \in DOMAIN lnks' : lnks'[f] = Pending
             \/ pc = "BARRIER" /\ \E f \in Images :
                                     /\ lnks[f] = Pending
                                     /\ lnks'[f] # Pending
                                     /\ \A g \in Images \ {f} : lnks'[g] = lnks[g]]_vars
    /\ [][relative_pm' # relative_pm
          => /\ pc = "AGGREGATE"
             /\ relative_pm' = lnks_averaged(pd_concat(lnks), version)]_vars

\* C15: the second iteration is aggregated, from the results of two workers.
C15_SecondIterationAggregated ==
    /\ pc = "AGGREGATE"
    /\ iteration = 1
    /\ n_images = 2
    /\ \A f \in Images : lnks[f].kind = "match"

\* The phase that follows a completed aggregation.
PhaseAfterAggregate ==
    IF version = "v5" THEN "CALIBRATE"
    ELSE IF only_use_members THEN "MEMBERSHIP_UPDATE" ELSE "CONVERGENCE_CHECK"

\* C16 as stated: in both versions a completed aggregation is followed by the
\* calibration, which recomputes the absolute proper motions, then by the
\* membership update when enabled, then by the convergence check.
C16_PhaseOrderBothVersions ==
    [][pc' # pc
       => /\ (pc = "AGGREGATE" /\ pc' # "CRASH") => pc' = "CALIBRATE"
          /\ pc = "CALIBRATE"
             => /\ absolute' = absolute_pm([s \in Stars |-> Gaia_table(s)], relative_pm)
                /\ pc' = IF only_use_members THEN "MEMBERSHIP_UPDATE"
                         ELSE "CONVERGENCE_CHECK"
          /\ pc = "MEMBERSHIP_UPDATE" => pc' = "CONVERGENCE_CHECK"
          /\ pc = "CONVERGENCE_CHECK" => pc' = "PER_FRAME_TRANSFORM"]_vars

\* C16 amended: every iteration goes through dispatch, barrier, aggregation,
\* then in v5 the calibration (absolute_pm on the aggregates of this
\* iteration), then the membership update when only_use_members, then the
\* convergence check; v1 has no calibration phase and never computes the
\* absolute proper motions in the loop.  The absolute proper motions change
\* only in the calibration.
C16_PhaseOrder ==
    /\ [][pc' # pc
          => /\ pc = "PER_FRAME_TRANSFORM" => pc' \in {"BARRIER", "DONE"}
             /\ pc = "BARRIER" => pc' \in {"AGGREGATE", "ABORT", "CRASH"}
             /\ pc = "AGGREGATE" => pc' \in {PhaseAfterAggregate, "CRASH"}
             /\ pc = "CALIBRATE"
                => /\ version = "v5"
                   /\ absolute' = absolute_pm([s \in Stars |-> Gaia_table(s)], relative_pm)
                   /\ pc' = IF only_use_members THEN "MEMBERSHIP_UPDATE"
                            ELSE "CONVERGENCE_CHECK"
             /\ pc = "MEMBERSHIP_UPDATE"
                => only_use_members /\ pc' = "CONVERGENCE_CHECK"
             /\ pc = "CONVERGENCE_CHECK" => pc' = "PER_FRAME_TRANSFORM"
             /\ pc \notin {"DONE", "ABORT", "CRASH"}]_vars
    /\ [][absolute' # absolute => pc = "CALIBRATE"]_vars
    /\ [](version = "v1" => absolute = [s \in Stars |-> NullAbsolute])

\* C16: v5 has calibrated the second iteration, whose aggregates differ from
\* those of the first, and is about to update the membership.
C16_SecondCalibration ==
    /\ version = "v5"
    /\ pc = "MEMBERSHIP_UPDATE"
    /\ iteration = 1
    /\ \E s \in Stars : pm_evo_last[s] # <<NaN, NaN>>
                         /\ pm_evo_last[s][1] # absolute[s].hst_gaia_pmra_wmean

(***************************************************************************)
(* The Quality Gate check_mat and its use by xym2pm_Gaia (SpecGate).       *)
(* A MAT file is a sequence of rows; of a row the model keeps the          *)
(* residuals dx, dy (columns 6 and 7) and log_prob, the score the mixture  *)
(* model fitted to the residuals gives the row.  The p-value of the        *)
(* Shapiro-Wilk test is an input; p-values and alpha are powers of ten,    *)
(* kept as their negative exponents (p = 10 ** -p_neglog10), so that       *)
(* p > alpha is p_neglog10 < alpha_neglog10.                               *)
(***************************************************************************)
MaxMatRows == 3

RLess(a, b) == RLeq(a, b) /\ a # b

\* The k-th smallest element of xs.
order_statistic(xs, k) ==
    CHOOSE x \in {xs[i] : i \in DOMAIN xs} :
        /\ Cardinality({i \in DOMAIN xs : RLess(xs[i], x)}) < k
        /\ Cardinality({i \in DOMAIN xs : RLeq(xs[i], x)}) >= k

\* np.median
np_median(xs) ==
    LET n == Len(xs)
    IN  IF n = 0 THEN NaN
        ELSE IF n % 2 = 1 THEN order_statistic(xs, (n + 1) \div 2)
        ELSE RDiv(RAdd(order_statistic(xs, n \div 2), order_statistic(xs, n \div 2 + 1)),
                  R(2, 1))

\* log_prob >= np.median(sample) - clipping_prob * np.std(sample), the
\* comparison made on squares: np.std >= 0.
not_clipped(log_prob, sample, clipping_prob) ==
    LET below == RSub(np_median(sample), log_prob)
    IN  \/ RLeq(below, Zero)
        \/ RLeq(RSq(below), RMul(RSq(clipping_prob), SeriesVar(sample, 0)))

\* alpha of the call of check_mat: v5 lines 933-936, v1 lines 1018-1021.
AlphaMembersV5 == 6
AlphaV5 == 64
AlphaMembersV1 == 5
AlphaV1 == 32
gate_alpha_neglog10(ver, it, members, rewind) ==
    IF ver = "v5"
    THEN (IF it > 0 /\ members /\ ~rewind THEN AlphaMembersV5 ELSE AlphaV5)
    ELSE (IF it > 0 /\ members THEN AlphaMembersV1 ELSE AlphaV1)

\* center_tolerance: 1e-2 is passed in v5, v1 leaves the default 1e-4.
gate_center_tolerance(ver) == IF ver = "v5" THEN R(1, 100) ELSE R(1, 10000)

\* clipping_prob = 3. is passed in both versions.
gate_clipping_prob == R(3, 1)

\* Faulty variant: a sample of exactly min_stars rows is accepted.
check_mat_at_least(mat, p_neglog10, min_stars, alpha_neglog10, center_tolerance, fix_mat) ==
    [valid |-> <<p_neglog10 < alpha_neglog10,
                 /\ RLess(SeriesMean(Column(mat, "dx")), center_tolerance)
                 /\ RLess(SeriesMean(Column(mat, "dy")), center_tolerance),
                 Len(mat) >= min_stars>>,
     mat_file |-> mat]

\* check_mat: the three checks, made on the rows read from the file, and the
\* rows it writes back to the file when fix_mat.
check_mat(mat, p_neglog10, min_stars, alpha_neglog10, center_tolerance, fix_mat) ==
    LET log_prob == Column(mat, "log_prob")
        good_for_alignment ==
            [i \in 1..Len(mat) |->
                IF fix_mat THEN not_clipped(log_prob[i], log_prob, gate_clipping_prob)
                ELSE TRUE]
    IN  [valid |-> <<p_neglog10 < alpha_neglog10,
                     /\ RLess(SeriesMean(Column(mat, "dx")), center_tolerance)
                     /\ RLess(SeriesMean(Column(mat, "dy")), center_tolerance),
                     Len(mat) > min_stars>>,
         mat_file |-> IF fix_mat
                      THEN SelectSeq(mat, LAMBDA row :
                               not_clipped(row.log_prob, log_prob, gate_clipping_prob))
                      ELSE mat]

\* The rows a MAT file may hold, and the MAT files of the model.
MatRows ==
    {[dx |-> Zero, dy |-> Zero, log_prob |-> Zero],
     [dx |-> R(1, 200), dy |-> R(-1, 200), log_prob |-> R(-1, 1)],
     [dx |-> R(-5, 1), dy |-> Zero, log_prob |-> R(-9, 1)],
     [dx |-> Zero, dy |-> R(5, 1), log_prob |-> R(-9, 1)]}
Mats == UNION {[1..n -> MatRows] : n \in 1..MaxMatRows}
PValues == {1, 5, 6, 40, 64}

InitGate ==
    /\ NotRunning
    /\ call \in [version : {"v1", "v5"}, iteration : {0, 1}, only_use_members : BOOLEAN,
                 rewind_stars : BOOLEAN, fix_mat : BOOLEAN, mat : Mats,
                 p_neglog10 : PValues, failure : Failures]
    /\ call.version = "v1" => ~call.rewind_stars
    /\ result = NoResult

\* One call of xym2pm_Gaia on image 1, from the try block on.
ApplyQualityGate ==
    /\ result = NoResult
    /\ LET gate == check_mat(call.mat, call.p_neglog10, min_stars_alignment,
                             gate_alpha_neglog10(call.version, call.iteration,
                                                 call.only_use_members, call.rewind_stars),
                             gate_center_tolerance(call.version), call.fix_mat)
       IN  result' = [valid_mat |-> gate.valid,
                      mat_file |-> IF call.failure \in {"none", "read_lnk"}
                                   THEN gate.mat_file ELSE call.mat,
                      match |-> xym2pm_Gaia(1, call.failure, gate.valid, 1)]
    /\ UNCHANGED <<call, controller>>

NextGate == ApplyQualityGate

SpecGate == InitGate /\ [][NextGate]_vars

(***************************************************************************)
(* Properties of the Quality Gate (SpecGate).                              *)
(***************************************************************************)
\* The three checks, as the claims state them, on the inputs of the call.
GateAlpha ==
    gate_alpha_neglog10(call.version, call.iteration, call.only_use_members,
                        call.rewind_stars)
NormalityAboveAlpha == call.p_neglog10 < GateAlpha
SampleLargeEnough == Len(call.mat) > min_stars_alignment
CentroidWithinTolerance ==
    /\ RLeq(RAbs(SeriesMean(Column(call.mat, "dx"))), gate_center_tolerance(call.version))
    /\ RLeq(RAbs(SeriesMean(Column(call.mat, "dy"))), gate_center_tolerance(call.version))
Contributes == result.match.kind = "match"

C18_CentroidWithinTolerance ==
    result # NoResult
    => /\ result.valid_mat[2] => CentroidWithinTolerance
       /\ Contributes => CentroidWithinTolerance

\* C18: a frame whose mean residual is below minus the tolerance on one axis
\* passed the centroid check and contributed its match table.
C18_NegativeOffsetAccepted ==
    /\ result # NoResult
    /\ Contributes
    /\ \/ RLess(SeriesMean(Column(call.mat, "dx")), RNeg(gate_center_tolerance(call.version)))
       \/ RLess(SeriesMean(Column(call.mat, "dy")), RNeg(gate_center_tolerance(call.version)))

(***************************************************************************)
(* The Absolute Calibrator and the alignment flags (SpecOffset).           *)
(***************************************************************************)
\* The table with the reference and the relative proper motion of one star
\* replaced.
replace_row(t, star, row) == [t EXCEPT ![star] = row]

\* launch_xym2pm_Gaia hands the whole joined table to absolute_pm; the
\* column use_for_alignment is one of its columns and absolute_pm does not
\* read it.
InitOffset ==
    /\ NotRunning
    /\ call \in [cat : [Stars -> CatalogRows], rel : [Stars -> AggregateRows],
                 use_for_alignment : [Stars -> BOOLEAN], star : Stars,
                 new_cat : CatalogRows, new_rel : AggregateRows]
    /\ result = NoResult

ApplyAbsolutePmChanged ==
    /\ result = NoResult
    /\ result' = [table |-> absolute_pm(call.cat, call.rel),
                  changed |-> absolute_pm(replace_row(call.cat, call.star, call.new_cat),
                                          replace_row(call.rel, call.star, call.new_rel))]
    /\ UNCHANGED <<call, controller>>

NextOffset == ApplyAbsolutePmChanged

SpecOffset == InitOffset /\ [][NextOffset]_vars

\* C17: changing the reference or the relative proper motion of a star
\* that is not flagged use_for_alignment changes no other star's absolute
\* proper motion (the ensemble offset is taken over the flagged stars only).
C17_OffsetOverFlaggedStarsOnly ==
    (result # NoResult /\ ~call.use_for_alignment[call.star])
    => \A s \in Stars \ {call.star} : result.changed[s] = result.table[s]

\* C17: a star that is not flagged was changed and a flagged star's
\* absolute proper motion, finite before and after, is another one.
C17_UnflaggedStarMovedOffset ==
    /\ result # NoResult
    /\ ~call.use_for_alignment[call.star]
    /\ \E s \in Stars \ {call.star} :
          /\ call.use_for_alignment[s]
          /\ isfinite(result.table[s].hst_gaia_pmra_wmean)
          /\ isfinite(result.changed[s].hst_gaia_pmra_wmean)
          /\ result.changed[s].hst_gaia_pmra_wmean # result.table[s].hst_gaia_pmra_wmean

(***************************************************************************)
(* The Membership Classifier: members_prob and pm_cleaning_GMM_recursive   *)
(* (SpecGMM).  call holds the arguments, result the locals of the running  *)
(* call: at (the position in the loop), iteration, convergence, the column *)
(* table['clustering_data'], fitting, previous_fitting and, at the end,    *)
(* the membership returned.  The mixture fit and score_samples are the     *)
(* library's: the log-probability of each row is any value of a small set, *)
(* chosen anew in every round (the fit depends on the candidates, on       *)
(* data_0, which is dropped after round 3, and on the random start of the  *)
(* mixture), and the fit raises on data it cannot standardise.  A label is *)
(* 1.0, 0.0 or null.                                                       *)
(***************************************************************************)
max_rounds == 999

ClippingProbs == {R(1, 2), R(3, 1)}
LogProbValues == {Zero, R(-9, 1)}
ScoreSamples(rows) == [rows -> LogProbValues]

NullColumn(rows) == [s \in rows |-> NaN]
NullResults(rows) ==
    [member_clustering_prob |-> NullColumn(rows), member_clustering |-> NullColumn(rows)]

\* The rows the mixture is fitted on.
fitted_rows(has_v, cand) == {s \in DOMAIN has_v : has_v[s] /\ cand[s]}

\* members_prob, log_prob being what clf.score_samples returns.
members_prob(has_v, cand, log_prob, clipping_prob) ==
    LET idx == SortedSeq(fitted_rows(has_v, cand))
        sample == [i \in 1..Len(idx) |-> log_prob[idx[i]]]
    IN  IF Cardinality(fitted_rows(has_v, cand)) > 1
        THEN [member_clustering_prob |->
                  [s \in DOMAIN has_v |-> IF has_v[s] THEN log_prob[s] ELSE NaN],
              member_clustering |->
                  [s \in DOMAIN has_v |->
                      IF ~has_v[s] THEN NaN
                      ELSE IF not_clipped(log_prob[s], sample, clipping_prob)
                      THEN One ELSE Zero]]
        ELSE NullResults(DOMAIN has_v)

\* Faulty variant: only the labels are compared.
gmm_convergence_labels_only(it, fit, previous) ==
    IF it > max_rounds THEN TRUE
    ELSE IF it > 0 THEN fit.member_clustering = previous.member_clustering
    ELSE FALSE

\* The value of convergence at the end of round it: DataFrame.equals
\* compares both columns and takes null as equal to null.
gmm_convergence(it, fit, previous) ==
    IF it > max_rounds THEN TRUE
    ELSE IF it > 0 THEN fit = previous
    ELSE FALSE

\* The column real_data of the concatenated table: the rows of alt_table,
\* when there is one, come last.
RealDataColumns(rows) ==
    {r \in [rows -> BOOLEAN] : \A s \in rows : s < Cardinality(rows) => r[s]}

\* The column clustering_data before the first round: the table's own, or
\* 1 in every row, and 0 in the rows of alt_table.
initial_clustering_data(given, real_data) ==
    [s \in DOMAIN real_data |-> /\ real_data[s]
                                /\ (given = NoColumn \/ given[s])]

\* The calls on a table of the given rows.
Tables(rows) ==
    [has_vars : [rows -> BOOLEAN],
     clustering_data : {NoColumn} \cup [rows -> BOOLEAN],
     real_data : RealDataColumns(rows),
     clipping_prob : ClippingProbs]

\* The locals before the first round (fitting is not bound yet).
locals_before_loop(c) ==
    [at |-> "fit", iteration |-> 0, convergence |-> FALSE,
     clustering_data |-> initial_clustering_data(c.clustering_data, c.real_data),
     fitting |-> NullResults(DOMAIN c.has_vars),
     previous_fitting |-> NullResults(DOMAIN c.has_vars),
     returned |-> NullColumn(DOMAIN c.has_vars)]

InitGMM ==
    /\ NotRunning
    /\ call \in Tables(Stars)
    /\ result = locals_before_loop(call)

\* The rows of the table of the call.
Rows == DOMAIN call.has_vars

\* while not convergence: fitting = members_prob(...)
FitRound ==
    /\ result.at = "fit"
    /\ ~result.convergence
    /\ \E log_prob \in ScoreSamples(Rows) :
          result' = [result EXCEPT
                        !.fitting = members_prob(call.has_vars, result.clustering_data,
                                                 log_prob, call.clipping_prob),
                        !.at = "update"]
    /\ UNCHANGED <<call, controller>>

\* clf.fit raises (a standard deviation of zero among the candidates): the
\* exception leaves pm_cleaning_GMM_recursive.
FitRaises ==
    /\ result.at = "fit"
    /\ ~result.convergence
    /\ Cardinality(fitted_rows(call.has_vars, result.clustering_data)) > 1
    /\ result' = [result EXCEPT !.at = "raised"]
    /\ UNCHANGED <<call, controller>>

\* Faulty variant: the candidates of the previous round are not consulted.
candidates_after_any_real_member(cand, labels, real_data) ==
    [s \in DOMAIN cand |-> labels[s] = One /\ real_data[s]]

\* Faulty variant: the candidates become the rows labelled members.
candidates_after_retained_members(cand, labels, real_data) ==
    [s \in DOMAIN cand |-> labels[s] = One]

\* table['clustering_data'] after the round.
candidates_after(cand, labels, real_data) ==
    [s \in DOMAIN cand |-> cand[s] /\ labels[s] = One /\ real_data[s]]

\* The columns of the table are set and convergence is decided.
UpdateRound ==
    /\ result.at = "update"
    /\ result' = [result EXCEPT
                     !.clustering_data =
                         candidates_after(result.clustering_data,
                                          result.fitting.member_clustering,
                                          call.real_data),
                     !.convergence = gmm_convergence(result.iteration, result.fitting,
                                                     result.previous_fitting),
                     !.at = "next"]
    /\ UNCHANGED <<call, controller>>

\* previous_fitting = fitting.copy(); iteration += 1
NextRound ==
    /\ result.at = "next"
    /\ result' = [result EXCEPT !.previous_fitting = result.fitting,
                                !.iteration = result.iteration + 1,
                                !.at = "fit"]
    /\ UNCHANGED <<call, controller>>

\* return fitting.member_clustering
ReturnMembership ==
    /\ result.at = "fit"
    /\ result.convergence
    /\ result' = [result EXCEPT !.returned = result.fitting.member_clustering,
                                !.at = "returned"]
    /\ UNCHANGED <<call, controller>>

NextGMM ==
    \/ FitRound
    \/ FitRaises
    \/ UpdateRound
    \/ NextRound
    \/ ReturnMembership

SpecGMM == InitGMM /\ [][NextGMM]_vars

\* The same loop on a table of MaxGmmRows rows, followed over its first
\* rounds: with three rows a round can fit the mixture on two candidates
\* and score a row that is not a candidate.
MaxGmmRows == 3
MaxGmmRounds == 3

InitGMMRows ==
    /\ NotRunning
    /\ call \in Tables(1..MaxGmmRows)
    /\ result = locals_before_loop(call)

FirstRounds == result.iteration <= MaxGmmRounds

NextGMMRows ==
    \/ FirstRounds /\ FitRound
    \/ FirstRounds /\ FitRaises
    \/ UpdateRound
    \/ NextRound
    \/ ReturnMembership

SpecGMMRows == InitGMMRows /\ [][NextGMMRows]_vars

(***************************************************************************)
(* Properties of the Membership Classifier (SpecGMM).                      *)
(***************************************************************************)
\* The candidates with non-null coordinates at the start of the round.
CandidatesNow == fitted_rows(call.has_vars, result.clustering_data)
Labels(fit) == fit.member_clustering
GmmEnded == result.at \in {"returned", "raised"}

\* C19: a round that starts with fewer than 2 candidates does not raise,
\* leaves the candidate set as it is and (from round 1 on) gives the
\* membership of the previous round, which is then the one returned.
C19_NoUpdateBelowTwoCandidates ==
    /\ []((result.at = "update" /\ Cardinality(CandidatesNow) < 2
                                /\ result.iteration >= 1)
          => Labels(result.fitting) = Labels(result.previous_fitting))
    /\ [][(result.at = "update" /\ Cardinality(CandidatesNow) < 2)
          => fitted_rows(call.has_vars, result'.clustering_data) = CandidatesNow]_vars
    /\ [][(result.at = "fit" /\ Cardinality(CandidatesNow) < 2)
          => result'.at # "raised"]_vars

\* C19: round 1 or later started with one candidate, a member in the
\* previous round, and members_prob returned null for every row.
C19_MembershipWiped ==
    /\ result.at = "update"
    /\ result.iteration >= 1
    /\ \E s \in Rows :
          /\ CandidatesNow = {s}
          /\ Labels(result.previous_fitting)[s] = One
    /\ result.fitting = NullResults(Rows)

\* How far the call has come: the round and the position within it.
GmmRank ==
    3 * result.iteration
    + (IF result.at = "fit" THEN 0 ELSE IF result.at = "next" THEN 2 ELSE 1)

\* The guards of the steps of the loop: one of them holds.
GmmCanStep ==
    \/ result.at = "fit" /\ ~result.convergence /\ ScoreSamples(Rows) # {}
    \/ result.at = "fit" /\ result.convergence
    \/ result.at = "update"
    \/ result.at = "next"

\* A step towards the end of the call: every step moves the call on, the
\* state it leads to is the end or has a step of its own, and no step goes
\* beyond the return after round max_rounds + 1.
GmmProgress ==
    /\ GmmRank' > GmmRank
    /\ GmmRank' <= 3 * (max_rounds + 2) + 1
    /\ (GmmEnded \/ GmmCanStep)'

\* No round with an index above 1000 is executed, and the loop is left as
\* soon as convergence is set.
GmmCeiling ==
    /\ (result.at \in {"update", "next"} => result.iteration <= max_rounds + 1)'
    /\ (result.at = "fit" /\ result.convergence) => result'.at = "returned"

\* C20, as stated: the call ends; the loop stops at the first round r >= 1
\* whose membership assignment is that of round r - 1, and in any case at
\* the ceiling; no round with an index above 1000 is executed.
C20_StopsAtEqualMembership ==
    [][/\ GmmProgress
       /\ GmmCeiling
       /\ result'.at = "next"
          => (result'.convergence
              <=> \/ /\ result'.iteration >= 1
                     /\ Labels(result'.fitting) = Labels(result'.previous_fitting)
                  \/ result'.iteration > max_rounds)]_vars

\* C20, amended: the call ends (by its return, or by an exception of the
\* fit); the loop stops at the first round r >= 1 whose labels and
\* log-probabilities are those of round r - 1, row by row, and in any case
\* at round 1000; no round with an index above 1000 is executed.
C20_StopsAtEqualFitting ==
    [][/\ GmmProgress
       /\ GmmCeiling
       /\ result'.at = "next"
          => (result'.convergence
              <=> \/ /\ result'.iteration >= 1
                     /\ Labels(result'.fitting) = Labels(result'.previous_fitting)
                     /\ result'.fitting.member_clustering_prob
                            = result'.previous_fitting.member_clustering_prob
                  \/ result'.iteration = max_rounds + 1)]_vars

\* C20: round 1000 gave the labels of round 999 (members among them) with
\* other log-probabilities, and the loop was stopped by the ceiling.
C20_StoppedByCeiling ==
    /\ result.at = "next"
    /\ result.iteration = max_rounds + 1
    /\ result.convergence
    /\ Labels(result.fitting) = Labels(result.previous_fitting)
    /\ \E s \in Stars : Labels(result.fitting)[s] = One
    /\ result.fitting # result.previous_fitting

(***************************************************************************)
(* Two runs of launch_xym2pm_Gaia on the same frozen inputs (SpecDet).     *)
(* call holds the inputs: the arguments, the flags the table comes in      *)
(* with, what the transformer and the Quality Gate give for each image     *)
(* (at iteration 0 and at the later iterations), the user's selection in   *)
(* the colour-magnitude diagram and the labels of the mixture fit, its     *)
(* seed fixed.  The first run goes through the controller's steps, the     *)
(* workers returning in any order; when it has stopped, result keeps what  *)
(* it ended with and the second run starts from the same inputs.           *)
(***************************************************************************)
\* What the worker of image f can be frozen to.  The last images give the
\* same result at every iteration.
WorkerResults(f) ==
    IF f = 1 THEN {EmptyDataFrame} \cup {MatchTable(f, m) : m \in LnkAlternatives(f)}
    ELSE {Raised, EmptyDataFrame} \cup {MatchTable(f, m) : m \in LnkAlternatives(f)}

TransformerTapes ==
    {t \in [Frames -> [1..2 -> UNION {WorkerResults(f) : f \in Frames}]] :
        \A f \in Frames : /\ \A k \in 1..2 : t[f][k] \in WorkerResults(f)
                          /\ f > 1 => t[f][1] = t[f][2]}

\* The selections in the colour-magnitude diagram: the first star is in.
CmdSelections == {l \in [Stars -> BOOLEAN] : l[1]}

FrozenInputs ==
    {c \in [version : {"v1", "v5"}, only_use_members : BOOLEAN, rewind_stars : BOOLEAN,
            clustering_data : {NoColumn} \cup CmdSelections,
            use_for_alignment : [Stars -> BOOLEAN],
            transformer : TransformerTapes,
            cmd : CmdSelections, gmm : [Stars -> BOOLEAN]] :
        /\ c.version = "v1" => ~c.rewind_stars
        /\ IF c.version = "v1" /\ c.only_use_members
           THEN /\ c.clustering_data # NoColumn
                /\ \A s \in Stars : c.use_for_alignment[s] => c.clustering_data[s]
           ELSE /\ c.clustering_data = NoColumn
                /\ c.use_for_alignment = AllTrue
        /\ ~c.only_use_members => (c.cmd = AllTrue /\ c.gmm = AllTrue)}

\* The state in which a run on the inputs c starts.
RunStarts(c) ==
    /\ version = c.version
    /\ only_use_members = c.only_use_members
    /\ rewind_stars = c.rewind_stars
    /\ n_images = MaxFrames
    /\ pc = "PER_FRAME_TRANSFORM"
    /\ iteration = 0
    /\ convergence = FALSE
    /\ clustering_data = c.clustering_data
    /\ use_for_alignment = c.use_for_alignment
    /\ new_use_for_alignment = NoColumn
    /\ args = <<>>
    /\ lnks = <<>>
    /\ has_averaged = FALSE
    /\ table_filters = {}
    /\ relative_pm = [s \in Stars |-> NullAggregate]
    /\ absolute = [s \in Stars |-> NullAbsolute]
    /\ pm_evo_last = NullEvo
    /\ n_pm_evo = 0
    /\ n_pm_diff_evo = 0
    /\ n_lsqt_evo = 0
    /\ warning = FALSE
    /\ outcome = ""
    /\ returned = {}

InitDet ==
    /\ call \in FrozenInputs
    /\ result = NoResult
    /\ RunStarts(call)

\* Faulty variant: the workers share one scratch file, and only the first
\* to finish finds its own output in it.
worker_result_shared_file(f) ==
    IF \E g \in DOMAIN lnks : lnks[g] # Pending THEN EmptyDataFrame
    ELSE call.transformer[f][IF iteration = 0 THEN 1 ELSE 2]

\* pool.map: the result of the worker of image f, whenever it finishes.
worker_result(f) == call.transformer[f][IF iteration = 0 THEN 1 ELSE 2]

DetWorker(f) ==
    /\ Worker(f)
    /\ lnks'[f] = worker_result(f)

\* The labels of pm_cleaning_GMM_recursive on the frozen fit.
frozen_pm_clustering(rel, candidates) ==
    IF pm_clustering_outcomes(rel, candidates) = {AllFalse} THEN AllFalse
    ELSE [s \in Stars |-> call.gmm[s] /\ has_vars(rel, s)]

DetMembershipUpdate ==
    /\ MembershipUpdate
    /\ clustering_data' = (IF iteration = 0 THEN call.cmd ELSE clustering_data)
    /\ new_use_for_alignment' =
           [s \in Stars |-> /\ frozen_pm_clustering(relative_pm, clustering_data')[s]
                            /\ clustering_data'[s]]

\* What a run ends with.
RunEnd ==
    [iteration |-> iteration, use_for_alignment |-> use_for_alignment,
     relative_pm |-> relative_pm, absolute |-> absolute,
     outcome |-> outcome, returned |-> returned]

\* The first run has stopped; the pipeline is run again on the same inputs.
RunAgain ==
    /\ pc \in {"DONE", "ABORT", "CRASH"}
    /\ result = NoResult
    /\ result' = RunEnd
    /\ call' = call
    /\ version' = call.version
    /\ only_use_members' = call.only_use_members
    /\ rewind_stars' = call.rewind_stars
    /\ n_images' = MaxFrames
    /\ pc' = "PER_FRAME_TRANSFORM"
    /\ iteration' = 0
    /\ convergence' = FALSE
    /\ clustering_data' = call.clustering_data
    /\ use_for_alignment' = call.use_for_alignment
    /\ new_use_for_alignment' = NoColumn
    /\ args' = <<>>
    /\ lnks' = <<>>
    /\ has_averaged' = FALSE
    /\ table_filters' = {}
    /\ relative_pm' = [s \in Stars |-> NullAggregate]
    /\ absolute' = [s \in Stars |-> NullAbsolute]
    /\ pm_evo_last' = NullEvo
    /\ n_pm_evo' = 0
    /\ n_pm_diff_evo' = 0
    /\ n_lsqt_evo' = 0
    /\ warning' = FALSE
    /\ outcome' = ""
    /\ returned' = {}

NextDet ==
    \/ Dispatch
    \/ \E f \in Frames : DetWorker(f)
    \/ Barrier
    \/ Aggregate
    \/ Calibrate
    \/ DetMembershipUpdate
    \/ ConvergenceCheckV1
    \/ ConvergenceCheckV5
    \/ Return
    \/ RunAgain

SpecDet == InitDet /\ [][NextDet]_vars

Retained(s) ==
    LET idx == SortedSeq(CandidatesNow)
        sample == [i \in 1..Len(idx) |-> result.fitting.member_clustering_prob[idx[i]]]
        below == RSub(np_median(sample), result.fitting.member_clustering_prob[s])
    IN  \/ RLeq(below, Zero)
        \/ RLeq(RSq(below), RMul(RSq(call.clipping_prob), SeriesVar(sample, 0)))

\* In a round with a fit, every scored row is labelled by the rule.
LabelledByRule ==
    (result.at = "update" /\ Cardinality(CandidatesNow) > 1)
    => \A s \in Rows :
          call.has_vars[s] => (Labels(result.fitting)[s] = One <=> Retained(s))

\* C21, as stated: every scored row, candidate or not, is labelled by the
\* rule, and after the round the candidates are exactly the rows retained
\* as members in it.
C21_CandidatesAreRetainedMembers ==
    [][/\ LabelledByRule
       /\ result.at = "update"
          => result'.clustering_data = [s \in Rows |-> Labels(result.fitting)[s] = One]]_vars

\* C21, amended: every scored row, candidate or not, is labelled by the
\* rule, and after the round the candidates are the real rows that were
\* candidates before it and are retained as members in it.
C21_CandidatesAreRetainedCandidates ==
    [][/\ LabelledByRule
       /\ result.at = "update"
          => result'.clustering_data =
                 [s \in Rows |-> /\ result.clustering_data[s]
                                 /\ call.real_data[s]
                                 /\ Labels(result.fitting)[s] = One]]_vars

\* C21: a round with a fit has retained a row that was not a candidate,
\* and the row is not a candidate after the round.
C21_RetainedNonCandidate ==
    /\ result.at = "next"
    /\ \E s \in Rows : /\ Labels(result.fitting)[s] = One
                       /\ call.real_data[s]
                       /\ ~result.clustering_data[s]
    /\ \E s \in Rows : result.clustering_data[s]

(***************************************************************************)
(* Properties of the flags across the iterations.                          *)
(***************************************************************************)
\* The flags in the argument tuple of image f.
SnapshotOf(f) == args[f].Gaia_HST_table_field

\* The workers of an iteration leave the flags and the argument tuples
\* alone, and the flags of the table change only in the controller's own
\* steps (the dispatch loop, the membership update, the convergence test).
FlagsChangedByControllerOnly ==
    /\ pc = "BARRIER" => (use_for_alignment' = use_for_alignment /\ args' = args)
    /\ use_for_alignment' # use_for_alignment
       => pc \in {"PER_FRAME_TRANSFORM", "MEMBERSHIP_UPDATE", "CONVERGENCE_CHECK"}

\* C22 (v5): the flags a worker uses are the flags the table holds when
\* the workers of the iteration are started, and only the controller
\* changes the flags, between the barrier and the next dispatch.
C22_WorkersUseFlagsAtDispatch ==
    [][version = "v5"
       => /\ FlagsChangedByControllerOnly
          /\ (pc = "PER_FRAME_TRANSFORM" /\ pc' = "BARRIER")
             => \A f \in Images : \A s \in DOMAIN SnapshotOf(f)' :
                   SnapshotOf(f)'[s] = use_for_alignment'[s]]_vars

\* C22: the workers of a later iteration of v5 are running, one has
\* returned, and their snapshots hold the flags of the table, a star taken
\* out of the alignment among them.
C22_WorkersRunningOnSnapshot ==
    /\ version = "v5"
    /\ pc = "BARRIER"
    /\ iteration >= 1
    /\ n_images > 1
    /\ \E f \in Images : lnks[f] # Pending
    /\ \E f \in Images : lnks[f] = Pending
    /\ \E s \in DOMAIN SnapshotOf(1) : ~SnapshotOf(1)[s]
    /\ \A f \in Images : \A s \in DOMAIN SnapshotOf(f) :
          SnapshotOf(f)[s] = use_for_alignment[s]

\* C23: when the membership refinement is off (only_use_members false) no
\* iteration changes the flags: at every moment of the run, DONE included,
\* the table's use_for_alignment is the vector established at INIT (all
\* true in these configurations), and every snapshot handed to a worker
\* carries exactly these flags.
C23_FlagsFixedWithoutMembers ==
    ~only_use_members
    => /\ use_for_alignment = AllTrue
       /\ \A f \in DOMAIN args : \A s \in DOMAIN SnapshotOf(f) :
             SnapshotOf(f)[s] = use_for_alignment[s]

\* C23 witness: a run without the refinement returned after an iteration in
\* which several workers were given their snapshots.
C23_DoneWithoutMembers ==
    /\ ~only_use_members
    /\ pc = "DONE"
    /\ n_images > 1
    /\ DOMAIN args = Images
    /\ returned # {}
    /\ use_for_alignment = AllTrue

\* C24: the aggregated measurements are recomputed every iteration.  Every
\* AGGREGATE step that has rows to average succeeds, also when the filter
\* columns differ from those of the previous iteration; after it the
\* relative proper motions are the statistics of the frames valid in this
\* iteration alone, and the table holds the aggregated filter columns of
\* this iteration's frames and no others (none carried over).
C24_RecomputedEveryIteration ==
    [][(pc = "AGGREGATE" /\ pd_concat(lnks) # <<>>)
       => /\ pc' # "CRASH"
          /\ relative_pm' = lnks_averaged(pd_concat(ValidFrames), version)
          /\ table_filters' = concat_filters(lnks)]_vars

\* C24, the case the step survives: the only frame of a filter became
\* invalid, the step completed, and the table still holds the aggregated
\* columns of that filter, computed in an earlier iteration.
C24_StaleFilterColumns ==
    /\ pc \in {"CALIBRATE", "MEMBERSHIP_UPDATE", "CONVERGENCE_CHECK"}
    /\ iteration >= 1
    /\ \E flt \in table_filters : flt \notin concat_filters(lnks)

\* C25: at DONE (v5) the diagnostic history is complete: the RMS series has
\* one entry per executed iteration and the drift series one entry per pair
\* of consecutive executed iterations, N - 1 after N iterations, also when
\* the loop ended at the iteration cap.
C25_DiagnosticHistoryComplete ==
    (version = "v5" /\ pc = "DONE")
    => /\ n_lsqt_evo = iteration
       /\ n_pm_diff_evo = iteration - 1

\* C25, the failing case: the loop ended at the cap after N iterations, the
\* RMS series has its N entries and the drift series N - 2.
C25_DriftEntryMissingAtCap ==
    /\ version = "v5"
    /\ pc = "DONE"
    /\ warning
    /\ iteration = MaxIterV5 + 2
    /\ n_lsqt_evo = iteration
    /\ n_pm_diff_evo = iteration - 2

(***************************************************************************)
(* check_mat on MAT files long enough for the trimming to remove a row     *)
(* (SpecTrim): with clipping_prob = 3 a single outlier is below            *)
(* median - 3 * std only among eight rows or more.                         *)
(***************************************************************************)
MaxTrimRows == 8

TrimRows ==
    {[dx |-> Zero, dy |-> Zero, log_prob |-> Zero],
     [dx |-> Zero, dy |-> R(5, 1), log_prob |-> R(-9, 1)]}
TrimMats == [1..MaxTrimRows -> TrimRows]
TrimMinStars == {min_stars_alignment, MaxTrimRows - 1}

InitTrim ==
    /\ NotRunning
    /\ call \in [version : {"v1", "v5"}, fix_mat : BOOLEAN, mat : TrimMats,
                 p_neglog10 : {5, 40}, min_stars_alignment : TrimMinStars]
    /\ result = NoResult

\* One call of check_mat at iteration 0.
ApplyCheckMat ==
    /\ result = NoResult
    /\ result' = check_mat(call.mat, call.p_neglog10, call.min_stars_alignment,
                           gate_alpha_neglog10(call.version, 0, FALSE, FALSE),
                           gate_center_tolerance(call.version), call.fix_mat)
    /\ UNCHANGED <<call, controller>>

NextTrim == ApplyCheckMat

SpecTrim == InitTrim /\ [][NextTrim]_vars

\* The centroid and sample-size checks as they come out on a sample.
CentroidCheck(sample) ==
    /\ RLess(SeriesMean(Column(sample, "dx")), gate_center_tolerance(call.version))
    /\ RLess(SeriesMean(Column(sample, "dy")), gate_center_tolerance(call.version))
SizeCheck(sample) == Len(sample) > call.min_stars_alignment

\* C26: with fix_mat, the checks of check_mat are those of the trimmed
\* sample, the rows written to the MAT file for the next iteration: the
\* centroid check and the sample-size check it returns are the checks
\* evaluated on the rows it wrote.
C26_ChecksOnTrimmedSample ==
    (result # NoResult /\ call.fix_mat)
    => /\ result.valid[2] = CentroidCheck(result.mat_file)
       /\ result.valid[3] = SizeCheck(result.mat_file)

\* C26, the failing case: a row was trimmed, the rows written pass the
\* centroid check, and the gate reports the centroid check failed.
C26_TrimmedSamplePassesGateFails ==
    /\ result # NoResult
    /\ call.fix_mat
    /\ Len(result.mat_file) < Len(call.mat)
    /\ CentroidCheck(result.mat_file)
    /\ ~result.valid[2]

\* C27: within one call of pm_cleaning_GMM_recursive the candidate set
\* never grows: after every step the candidates are among the candidates
\* before it, and they are real rows (no row of alt_table); hence a row
\* once removed is never a candidate again.
C27_CandidatesNeverGrow ==
    [][\A s \in Rows :
          result'.clustering_data[s]
          => (result.clustering_data[s] /\ call.real_data[s])]_vars

\* C27 witness: a real row that started as a candidate and was not a member
\* in the previous round is labelled a member in this round, and stays out
\* of the candidates while others remain.
C27_RemovedRowRetainedLater ==
    /\ result.at = "next"
    /\ result.iteration >= 1
    /\ \E s \in Rows : /\ initial_clustering_data(call.clustering_data, call.real_data)[s]
                       /\ call.has_vars[s]
                       /\ Labels(result.previous_fitting)[s] = Zero
                       /\ Labels(result.fitting)[s] = One
                       /\ ~result.clustering_data[s]
    /\ \E s \in Rows : result.clustering_data[s]

\* C28: in v1's membership-driven loop the flags of the returned table are
\* the flags passed to the transformer in the last executed iteration: at
\* DONE every argument tuple is of the last iteration and every snapshot
\* holds, star by star, the flags the table is returned with (the iteration
\* that declared convergence did not overwrite them).
C28_ReturnedFlagsArePassedFlags ==
    (version = "v1" /\ only_use_members /\ pc = "DONE")
    => \A f \in DOMAIN args :
          /\ args[f].iteration = iteration - 1
          /\ \A s \in DOMAIN SnapshotOf(f) : use_for_alignment[s] = SnapshotOf(f)[s]

\* C28 witness: v1 returned at the cap, the membership computed in the last
\* iteration differs from the flags, and a returned star keeps a flag the
\* new membership would have changed.
C28_ReturnedAtCapWithOldFlags ==
    /\ version = "v1"
    /\ only_use_members
    /\ pc = "DONE"
    /\ warning
    /\ \E s \in returned : new_use_for_alignment[s] # use_for_alignment[s]

(***************************************************************************)
(* force_use_amp in the dispatch loop of v5's launch_xym2pm_Gaia (SpecAmp):*)
(* the local is cleared at iteration 0 for an image whose field holds      *)
(* fewer than 4 * min_stars_amp stars, and its value at the moment of      *)
(* args.append goes to the worker, which builds the AMP option from it.    *)
(* The number of stars in the field of each image is an input.             *)
(***************************************************************************)
MaxAmpImages == 3
MaxFieldStars == 5
MaxAmpIterations == 2

AmpCalls ==
    UNION {[force_use_amp : BOOLEAN, min_stars_amp : {1, 2},
            n_field_stars : [1..n -> 0..MaxFieldStars]] : n \in 1..MaxAmpImages}

InitAmp ==
    /\ NotRunning
    /\ call \in AmpCalls
    /\ result = [iteration |-> 0, force_use_amp |-> call.force_use_amp, args |-> <<>>,
                 commands |-> <<>>]

\* Faulty variant: the flag follows the field of the image at hand.
force_use_amp_of_this_field(force_use_amp, it, n_field_stars, min_stars_amp) ==
    IF it = 0 THEN n_field_stars >= min_stars_amp * 4 ELSE force_use_amp

\* force_use_amp after the test made for one image.
force_use_amp_after(force_use_amp, it, n_field_stars, min_stars_amp) ==
    IF it = 0 /\ n_field_stars < min_stars_amp * 4 THEN FALSE ELSE force_use_amp

\* xym2pm_Gaia: the option added to the command of the transformer.
use_amp(force_use_amp, min_stars_amp) ==
    IF force_use_amp THEN <<"NAMP", min_stars_amp, "AMP+">> ELSE <<>>

\* One pass of the body of the dispatch loop: the next image gets its tuple.
DispatchImage ==
    /\ Len(result.args) < Len(call.n_field_stars)
    /\ LET image == Len(result.args) + 1
           flag == force_use_amp_after(result.force_use_amp, result.iteration,
                                       call.n_field_stars[image], call.min_stars_amp)
       IN  result' = [result EXCEPT
                         !.force_use_amp = flag,
                         !.args = Append(result.args,
                                         [iteration |-> result.iteration,
                                          force_use_amp |-> flag])]
    /\ UNCHANGED <<call, controller>>

\* The workers run on the tuples, each building its command.
RunWorkers ==
    /\ Len(result.args) = Len(call.n_field_stars)
    /\ result.commands = <<>>
    /\ result' = [result EXCEPT
                     !.commands = [i \in 1..Len(result.args) |->
                                      use_amp(result.args[i].force_use_amp,
                                              call.min_stars_amp)]]
    /\ UNCHANGED <<call, controller>>

\* The rest of the iteration; the next one starts with args = [].
NextIteration ==
    /\ result.commands # <<>>
    /\ result.iteration < MaxAmpIterations
    /\ result' = [result EXCEPT !.iteration = result.iteration + 1,
                                !.args = <<>>, !.commands = <<>>]
    /\ UNCHANGED <<call, controller>>

NextAmp == DispatchImage \/ RunWorkers \/ NextIteration

SpecAmp == InitAmp /\ [][NextAmp]_vars

\* The field of image i is too small to separate the amplifiers.
SmallField(i) == call.n_field_stars[i] < 4 * call.min_stars_amp

\* C29: force_use_amp is sticky.  The image i of iteration 0 receives the
\* original value unless its field, or the field of an image dispatched
\* before it, is too small, and then it receives the cleared value; every
\* image of a later iteration receives the original value only if no field
\* at all was too small in iteration 0.  The worker's AMP option follows the
\* value received.
C29_ForceUseAmpSticky ==
    /\ \A i \in 1..Len(result.args) :
          result.args[i].force_use_amp =
              /\ call.force_use_amp
              /\ \A j \in 1..Len(call.n_field_stars) :
                    (result.iteration > 0 \/ j <= i) => ~SmallField(j)
    /\ \A i \in 1..Len(result.commands) :
          (result.commands[i] # <<>>) = result.args[i].force_use_amp

\* C29 witness: in iteration 0 the first image was dispatched with the
\* original value and a later one, with a small field, cleared it; in a
\* later iteration the workers of all images, the first included, run
\* without the AMP option.
C29_ClearedForLaterIterations ==
    /\ call.force_use_amp
    /\ Len(call.n_field_stars) > 2
    /\ ~SmallField(1) /\ SmallField(2) /\ ~SmallField(3)
    /\ result.iteration > 0
    /\ Len(result.commands) = Len(call.n_field_stars)
    /\ \A i \in 1..Len(result.commands) : result.commands[i] = <<>>

\* No refinement is requested: v1 without only_use_members, v5 without
\* only_use_members and without rewind_stars.
NoRefinement ==
    IF version = "v1" THEN ~only_use_members ELSE ~only_use_members /\ ~rewind_stars

\* C30: without refinement the controller executes exactly one iteration:
\* its only dispatch is that of iteration 0, before any aggregation, and
\* the first convergence test declares convergence, so DONE follows with
\* the tuples of iteration 0.  In every other configuration the test of
\* iteration 0 does not declare convergence, and DONE is reached after two
\* iterations at least.
C30_OneIterationWithoutRefinement ==
    [][/\ (pc = "CONVERGENCE_CHECK" /\ iteration = 0)
          => (convergence' <=> NoRefinement)
       /\ (NoRefinement /\ pc = "PER_FRAME_TRANSFORM" /\ pc' = "BARRIER")
          => (iteration = 0 /\ ~has_averaged)
       /\ (pc' = "DONE")
          => IF NoRefinement
             THEN \A f \in DOMAIN args : args[f].iteration = 0
             ELSE /\ iteration >= 2
                  /\ \A f \in DOMAIN args : args[f].iteration = iteration - 1]_vars

\* C30 witness: a run without refinement has returned its table after the
\* single iteration 0, with one entry in the v5 series.
C30_DoneAfterOneIteration ==
    /\ NoRefinement
    /\ pc = "DONE"
    /\ has_averaged
    /\ n_images > 1
    /\ \A f \in DOMAIN args : args[f].iteration = 0
    /\ version = "v5" => (iteration = 1 /\ n_lsqt_evo = 1)

====
